---------------------------- MODULE Spec2Model ----------------------------
(***************************************************************************)
(* A model of the YouTube chat backend (src/index.js; src/unnamed/part_000 *)
(* holds the same pipeline with another transcript source): the duration   *)
(* formatter, the transcript chunker, the query matcher, the analysis      *)
(* requester with its fallback, and the /api/transcript handler with the   *)
(* two process-wide caches.                                                *)
(*                                                                         *)
(* JavaScript strings are modelled as sequences of one-character strings,  *)
(* so that length, slicing, splitting, substring search and case folding   *)
(* are computed as the code computes them.                                 *)
(***************************************************************************)
EXTENDS Integers, Sequences, FiniteSets, TLC

VARIABLES
    call,                 \* the function applied on its own, and its arguments
    ret,                  \* <<>> before that call, <<its result>> after it
    transcriptCache,      \* const transcriptCache = new Map()
    videoAnalysisCache,   \* const videoAnalysisCache = new Map()
    reqs,                 \* the HTTP requests: position in the handler, locals, response
    fetchCalls,           \* number of fetchVideoTranscript calls made so far
    llmCalls              \* number of openai.chat.completions.create calls made so far

vars == <<call, ret, transcriptCache, videoAnalysisCache, reqs, fetchCalls, llmCalls>>

(***************************************************************************)
(* Strings                                                                 *)
(***************************************************************************)

\* n copies of the character c
Pad(c, n) == [i \in 1..n |-> c]

Digits == <<"0", "1", "2", "3", "4", "5", "6", "7", "8", "9">>

IsDigit(c) == \E d \in 1..10 : Digits[d] = c

DigitVal(c) == (CHOOSE d \in 1..10 : Digits[d] = c) - 1

\* Number.prototype.toString() of an integer n >= 0
RECURSIVE Dec(_)
Dec(n) == IF n < 10 THEN <<Digits[n + 1]>> ELSE Dec(n \div 10) \o <<Digits[(n % 10) + 1]>>

padStart2_unpadded(s) == s

\* String.prototype.padStart(2, '0')
padStart2(s) == IF Len(s) >= 2 THEN s ELSE Pad("0", 2 - Len(s)) \o s

\* String.prototype.toLowerCase() on one character of the model's alphabet
LowerChar(c) ==
    CASE c = "M" -> "m"
      [] c = "L" -> "l"
      [] c = "P" -> "p"
      [] c = "S" -> "s"
      [] c = "V" -> "v"
      [] c = "C" -> "c"
      [] OTHER -> c

toLowerCase(s) == [i \in 1..Len(s) |-> LowerChar(s[i])]

\* String.prototype.slice(0, n)
slice0(s, n) == IF Len(s) <= n THEN s ELSE SubSeq(s, 1, n)

\* whether sub occurs in s starting at position i
MatchesAt(s, sub, i) ==
    /\ i + Len(sub) - 1 <= Len(s)
    /\ \A j \in 1..Len(sub) : s[i + j - 1] = sub[j]

\* String.prototype.includes(sub)
includes(s, sub) == \E i \in 1..(Len(s) + 1) : MatchesAt(s, sub, i)

\* String.prototype.split(sep) for a one-character separator: the pieces
\* between consecutive separators, empty pieces kept
RECURSIVE splitFrom(_, _, _, _)
splitFrom(s, sep, i, piece) ==
    IF i > Len(s) THEN <<piece>>
    ELSE IF s[i] = sep THEN <<piece>> \o splitFrom(s, sep, i + 1, <<>>)
    ELSE splitFrom(s, sep, i + 1, Append(piece, s[i]))

split(s, sep) == splitFrom(s, sep, 1, <<>>)

\* Array.prototype.join(sep) on an array of strings
RECURSIVE join(_, _)
join(strs, sep) ==
    IF Len(strs) = 0 THEN <<>>
    ELSE IF Len(strs) = 1 THEN strs[1]
    ELSE strs[1] \o sep \o join(Tail(strs), sep)

(***************************************************************************)
(* formatDuration                                                          *)
(***************************************************************************)

formatDuration_minutesOfTotal(seconds) ==
    LET hours == seconds \div 3600
        minutes == seconds \div 60
        remainingSeconds == seconds % 60
    IN IF hours > 0
       THEN Dec(hours) \o <<":">> \o padStart2(Dec(minutes)) \o <<":">>
                \o padStart2(Dec(remainingSeconds))
       ELSE Dec(minutes) \o <<":">> \o padStart2(Dec(remainingSeconds))

formatDuration(seconds) ==
    LET hours == seconds \div 3600
        minutes == (seconds % 3600) \div 60
        remainingSeconds == seconds % 60
    IN IF hours > 0
       THEN Dec(hours) \o <<":">> \o padStart2(Dec(minutes)) \o <<":">>
                \o padStart2(Dec(remainingSeconds))
       ELSE Dec(minutes) \o <<":">> \o padStart2(Dec(remainingSeconds))

(***************************************************************************)
(* chunkTranscript                                                         *)
(***************************************************************************)

MAX_CHUNK_LENGTH == 1500

\* the object pushed on chunks when a group of items is closed
closeChunk_noDuration(currentChunk) ==
    [text |-> join([i \in 1..Len(currentChunk) |-> currentChunk[i].text], <<" ">>),
     startTime |-> currentChunk[1].offset,
     endTime |-> currentChunk[Len(currentChunk)].offset,
     items |-> currentChunk]

closeChunk_noSeparator(currentChunk) ==
    [text |-> join([i \in 1..Len(currentChunk) |-> currentChunk[i].text], <<>>),
     startTime |-> currentChunk[1].offset,
     endTime |-> currentChunk[Len(currentChunk)].offset
                     + currentChunk[Len(currentChunk)].duration,
     items |-> currentChunk]

closeChunk(currentChunk) ==
    [text |-> join([i \in 1..Len(currentChunk) |-> currentChunk[i].text], <<" ">>),
     startTime |-> currentChunk[1].offset,
     endTime |-> currentChunk[Len(currentChunk)].offset
                     + currentChunk[Len(currentChunk)].duration,
     items |-> currentChunk]

\* item.duration || 0
durationOrZero(item) == IF item.duration = 0 THEN 0 ELSE item.duration

\* the state of the loop before its first iteration
chunkInit == [chunks |-> <<>>, currentChunk |-> <<>>, currentLength |-> 0, totalDuration |-> 0]

\* one iteration of the for loop
chunkStep_resetTotal(st, item) ==
    LET cur == Append(st.currentChunk, item)
        len == st.currentLength + Len(item.text)
        tot == st.totalDuration + durationOrZero(item)
    IN IF len >= MAX_CHUNK_LENGTH
       THEN [chunks |-> Append(st.chunks, closeChunk(cur)),
             currentChunk |-> <<>>, currentLength |-> 0, totalDuration |-> 0]
       ELSE [chunks |-> st.chunks,
             currentChunk |-> cur, currentLength |-> len, totalDuration |-> tot]

chunkStep_closesLate(st, item) ==
    LET cur == Append(st.currentChunk, item)
        len == st.currentLength + Len(item.text)
        tot == st.totalDuration + durationOrZero(item)
    IN IF len > MAX_CHUNK_LENGTH
       THEN [chunks |-> Append(st.chunks, closeChunk(cur)),
             currentChunk |-> <<>>, currentLength |-> 0, totalDuration |-> tot]
       ELSE [chunks |-> st.chunks,
             currentChunk |-> cur, currentLength |-> len, totalDuration |-> tot]

chunkStep(st, item) ==
    LET cur == Append(st.currentChunk, item)
        len == st.currentLength + Len(item.text)
        tot == st.totalDuration + durationOrZero(item)
    IN IF len >= MAX_CHUNK_LENGTH
       THEN [chunks |-> Append(st.chunks, closeChunk(cur)),
             currentChunk |-> <<>>, currentLength |-> 0, totalDuration |-> tot]
       ELSE [chunks |-> st.chunks,
             currentChunk |-> cur, currentLength |-> len, totalDuration |-> tot]

RECURSIVE chunkLoop(_, _, _)
chunkLoop(transcript, i, st) ==
    IF i > Len(transcript) THEN st
    ELSE chunkLoop(transcript, i + 1, chunkStep(st, transcript[i]))

\* the trailing group, closed after the loop when it is not empty
chunkRest_dropped(st) == st.chunks

chunkRest(st) ==
    IF Len(st.currentChunk) > 0
    THEN Append(st.chunks, closeChunk(st.currentChunk))
    ELSE st.chunks

chunkTranscript(transcript) ==
    LET st == chunkLoop(transcript, 1, chunkInit)
    IN [chunks |-> chunkRest(st), totalDuration |-> st.totalDuration]

(***************************************************************************)
(* JSON values: what JSON.parse returns, and the objects the code builds   *)
(***************************************************************************)

JUndefined == [t |-> "undefined"]

JNull == [t |-> "null"]

JStr(s) == [t |-> "string", v |-> s]

JNum(n) == [t |-> "number", v |-> n]

JArr(a) == [t |-> "array", v |-> a]

JObj(f) == [t |-> "object", v |-> f]

\* x.k for a value x that is neither null nor undefined
Prop(x, k) ==
    IF x.t = "object" /\ k \in DOMAIN x.v THEN x.v[k] ELSE JUndefined

\* reading a property of null or undefined throws a TypeError
Nullish(x) == x.t \in {"undefined", "null"}

\* the value counts as true in a condition
Truthy(x) ==
    CASE x.t \in {"undefined", "null"} -> FALSE
      [] x.t = "string" -> Len(x.v) > 0
      [] x.t = "number" -> x.v # 0
      [] OTHER -> TRUE

\* arr.map(e => e.k.method()) throws: arr is no array, an element is null or
\* undefined, or e.k is no string
MapStringPropThrows(arr, k) ==
    \/ arr.t # "array"
    \/ \E i \in 1..Len(arr.v) : Nullish(arr.v[i]) \/ Prop(arr.v[i], k).t # "string"

Return(v) == [threw |-> FALSE, value |-> v]

Throw == [threw |-> TRUE]

(***************************************************************************)
(* getRelevantChunks                                                       *)
(***************************************************************************)

CharAt(s, i) == IF i >= 1 /\ i <= Len(s) THEN s[i] ELSE ""

DigitAt(s, i) == IsDigit(CharAt(s, i))

\* (\d{1,2}:\d{2}|\d{1,2}) at position i: the length matched, 0 for no match;
\* the alternatives in order, each quantifier greedy
group2Len(s, i) ==
    IF DigitAt(s, i) /\ DigitAt(s, i + 1) /\ CharAt(s, i + 2) = ":"
           /\ DigitAt(s, i + 3) /\ DigitAt(s, i + 4) THEN 5
    ELSE IF DigitAt(s, i) /\ CharAt(s, i + 1) = ":"
           /\ DigitAt(s, i + 2) /\ DigitAt(s, i + 3) THEN 4
    ELSE IF DigitAt(s, i) /\ DigitAt(s, i + 1) THEN 2
    ELSE IF DigitAt(s, i) THEN 1
    ELSE 0

\* /(\d{1,2}:)?(\d{1,2}:\d{2}|\d{1,2})/ at position p: the optional group
\* first with two digits, then with one, then left out
timeRegexLenAt(s, p) ==
    IF DigitAt(s, p) /\ DigitAt(s, p + 1) /\ CharAt(s, p + 2) = ":"
           /\ group2Len(s, p + 3) > 0 THEN 3 + group2Len(s, p + 3)
    ELSE IF DigitAt(s, p) /\ CharAt(s, p + 1) = ":"
           /\ group2Len(s, p + 2) > 0 THEN 2 + group2Len(s, p + 2)
    ELSE group2Len(s, p)

\* query.match(timeRegex): the leftmost match, timeMatch[0] in token
timeMatch(query) ==
    LET starts == {p \in 1..Len(query) : timeRegexLenAt(query, p) > 0}
    IN IF starts = {} THEN [found |-> FALSE]
       ELSE LET p == CHOOSE q \in starts : \A r \in starts : q <= r
            IN [found |-> TRUE,
                token |-> SubSeq(query, p, p + timeRegexLenAt(query, p) - 1)]

\* parseInt(val) for val made of spaces, decimal digits and other characters
\* (no sign, no radix prefix): leading spaces are skipped, the leading digits
\* are read, and there is no number (NaN) when no digit leads
RECURSIVE parseDigits(_, _, _)
parseDigits(s, i, acc) ==
    IF DigitAt(s, i) THEN parseDigits(s, i + 1, acc * 10 + DigitVal(s[i])) ELSE acc

RECURSIVE skipSpaces(_, _)
skipSpaces(s, i) == IF CharAt(s, i) \in {" ", "\n"} THEN skipSpaces(s, i + 1) ELSE i

parseInt(val) ==
    LET i == skipSpaces(val, 1)
    IN IF DigitAt(val, i) THEN [nan |-> FALSE, n |-> parseDigits(val, i, 0)]
       ELSE [nan |-> TRUE]

\* parts.reduce((acc, val) => acc * 60 + parseInt(val), 0)
RECURSIVE reduceSeconds(_, _, _)
reduceSeconds(parts, i, acc) ==
    IF i > Len(parts) THEN acc
    ELSE LET v == parseInt(parts[i])
         IN IF acc.nan \/ v.nan THEN reduceSeconds(parts, i + 1, [nan |-> TRUE])
            ELSE reduceSeconds(parts, i + 1, [nan |-> FALSE, n |-> acc.n * 60 + v.n])

\* timestamp.split(':').reduce(...)
targetSecondsOf(timestamp) == reduceSeconds(split(timestamp, ":"), 1, [nan |-> FALSE, n |-> 0])

window == 300

\* the test of chunks.filter in the two window strategies
inWindow_startOnly(chunkStart, chunkEnd, targetSeconds) ==
    chunkStart >= targetSeconds - window /\ chunkStart <= targetSeconds + window

inWindow(chunkStart, chunkEnd, targetSeconds) ==
    \/ chunkStart >= targetSeconds - window /\ chunkStart <= targetSeconds + window
    \/ chunkEnd >= targetSeconds - window /\ chunkEnd <= targetSeconds + window

\* chunks.filter(...) around targetSeconds; every comparison with NaN is false
windowChunks(chunks, targetSeconds) ==
    IF targetSeconds.nan THEN <<>>
    ELSE SelectSeq(chunks, LAMBDA c : inWindow(c.startTime, c.endTime, targetSeconds.n))

\* queryLower.split(' ').filter(w => w.length > 3)
queryWords(queryLower) == SelectSeq(split(queryLower, " "), LAMBDA w : Len(w) > 3)

\* the text-similarity filter
lexicalChunks(chunks, queryLower) ==
    SelectSeq(chunks,
        LAMBDA c : \E w \in 1..Len(queryWords(queryLower)) :
                       includes(toLowerCase(c.text), queryWords(queryLower)[w]))

\* the test of topics.find
topicMatches_eitherWay(queryLower, t) == includes(queryLower, t) \/ includes(t, queryLower)

topicMatches(queryLower, t) == includes(queryLower, t)

\* topics.find(t => queryLower.includes(t)): the index of the topic found, 0 for none
matchedTopicIndex(topics, queryLower) ==
    LET hits == {i \in 1..Len(topics) : topicMatches(queryLower, topics[i])}
    IN IF hits = {} THEN 0 ELSE CHOOSE i \in hits : \A j \in hits : i <= j

\* the part of getRelevantChunks after the timestamp strategy
topicOrLexical(chunks, query, analysis) ==
    LET mainTopics == Prop(analysis, "mainTopics")
        keyConcepts == Prop(analysis, "keyConcepts")
    IN IF MapStringPropThrows(mainTopics, "topic") \/ MapStringPropThrows(keyConcepts, "concept")
       THEN Throw
       ELSE
         LET topics == [i \in 1..Len(mainTopics.v) |-> toLowerCase(Prop(mainTopics.v[i], "topic").v)]
             queryLower == toLowerCase(query)
             found == matchedTopicIndex(topics, queryLower)
         IN IF found # 0 /\ Len(topics[found]) > 0
            THEN LET same == {i \in 1..Len(topics) : topics[i] = topics[found]}
                     topic == mainTopics.v[CHOOSE i \in same : \A j \in same : i <= j]
                     timestamp == Prop(topic, "timestamp")
                 IN IF Truthy(timestamp)
                    THEN IF timestamp.t # "string" THEN Throw
                         ELSE Return(windowChunks(chunks, targetSecondsOf(timestamp.v)))
                    ELSE Return(lexicalChunks(chunks, queryLower))
            ELSE Return(lexicalChunks(chunks, queryLower))

getRelevantChunks_emptyFallsThrough(chunks, query, analysis) ==
    LET tm == timeMatch(query)
    IN IF tm.found /\ Len(windowChunks(chunks, targetSecondsOf(tm.token))) > 0
       THEN Return(windowChunks(chunks, targetSecondsOf(tm.token)))
       ELSE topicOrLexical(chunks, query, analysis)

getRelevantChunks(chunks, query, analysis) ==
    LET tm == timeMatch(query)
    IN IF tm.found
       THEN Return(windowChunks(chunks, targetSecondsOf(tm.token)))
       ELSE topicOrLexical(chunks, query, analysis)

(***************************************************************************)
(* createChatContext                                                       *)
(***************************************************************************)

\* a template literal's ${value}: String(value)
RECURSIVE templateString(_)
templateString(x) ==
    CASE x.t = "string" -> x.v
      [] x.t = "number" -> Dec(x.v)
      [] x.t = "undefined" -> <<"u", "n", "d", "e", "f", "i", "n", "e", "d">>
      [] x.t = "null" -> <<"n", "u", "l", "l">>
      [] x.t = "array" -> join([i \in 1..Len(x.v) |->
                                   IF Nullish(x.v[i]) THEN <<>> ELSE templateString(x.v[i])],
                               <<",">>)
      [] OTHER -> <<"[", "o", "b", "j", "e", "c", "t", " ", "O", "b", "j", "e", "c", "t", "]">>

firstThree_all(arr) == arr

\* Array.prototype.slice(0, 3)
firstThree(arr) == IF Len(arr) <= 3 THEN arr ELSE SubSeq(arr, 1, 3)

\* the test of the two filters: the name holds the query or the query holds
\* the name, both lower-cased
relevantTo(queryLower, name) ==
    includes(toLowerCase(name), queryLower) \/ includes(queryLower, toLowerCase(name))

\* analysis.mainTopics.filter(...).slice(0, 3), and the same for keyConcepts
relevantEntries(arr, k, queryLower) ==
    firstThree(SelectSeq(arr.v, LAMBDA e : relevantTo(queryLower, Prop(e, k).v)))

\* `[${t.timestamp}] ${t.topic}: ${t.description}`
topicLine(t) ==
    <<"[">> \o templateString(Prop(t, "timestamp")) \o <<"]", " ">>
        \o templateString(Prop(t, "topic")) \o <<":", " ">>
        \o templateString(Prop(t, "description"))

\* `${c.concept}: ${c.definition}`
conceptLine(c) ==
    templateString(Prop(c, "concept")) \o <<":", " ">> \o templateString(Prop(c, "definition"))

\* `[${formatDuration(chunk.startTime)} - ${formatDuration(chunk.endTime)}]\n${chunk.text}`
sectionText(chunk) ==
    <<"[">> \o formatDuration(chunk.startTime) \o <<" ", "-", " ">>
        \o formatDuration(chunk.endTime) \o <<"]", "\n">> \o chunk.text

sRelevantTopics == <<"R", "e", "l", "e", "v", "a", "n", "t", " ", "T", "o", "p", "i", "c", "s", ":">>

sRelevantConcepts == <<"R", "e", "l", "e", "v", "a", "n", "t", " ", "C", "o", "n", "c", "e", "p", "t", "s", ":">>

sRelevantSections == <<"R", "e", "l", "e", "v", "a", "n", "t", " ", "t", "r", "a", "n", "s", "c", "r", "i", "p", "t", " ", "s", "e", "c", "t", "i", "o", "n", "s", ":">>

sQuestion == <<"Q", "u", "e", "s", "t", "i", "o", "n", ":", " ">>

sTopikBerkaitan == <<"T", "o", "p", "i", "k", " ", "B", "e", "r", "k", "a", "i", "t", "a", "n", ":">>

sKonsepPenting == <<"K", "o", "n", "s", "e", "p", " ", "P", "e", "n", "t", "i", "n", "g", ":">>

sBahagianTranskrip == <<"B", "a", "h", "a", "g", "i", "a", "n", " ", "t", "r", "a", "n", "s", "k", "r", "i", "p", " ", "y", "a", "n", "g", " ", "b", "e", "r", "k", "a", "i", "t", "a", "n", ":">>

sSoalan == <<"S", "o", "a", "l", "a", "n", ":", " ">>

\* a block of the template: its header and its lines, or nothing at all
\* when there are no lines
block(header, lines) ==
    IF Len(lines) > 0 THEN header \o <<"\n">> \o join(lines, <<"\n">>) ELSE <<>>

createChatContext(query, metadata, analysis, relevantChunks, language) ==
    LET mainTopics == Prop(analysis, "mainTopics")
        keyConcepts == Prop(analysis, "keyConcepts")
    IN IF MapStringPropThrows(mainTopics, "topic") \/ MapStringPropThrows(keyConcepts, "concept")
       THEN Throw
       ELSE
         LET queryLower == toLowerCase(query)
             relevantTopics == relevantEntries(mainTopics, "topic", queryLower)
             relevantConcepts == relevantEntries(keyConcepts, "concept", queryLower)
             ms == language = "ms"
         IN Return(
                <<"V", "i", "d", "e", "o", ":", " ", "\"">> \o metadata.title \o <<"\"", " ", "(">>
                    \o formatDuration(metadata.duration) \o <<")", "\n", "\n">>
                    \o block(IF ms THEN sTopikBerkaitan ELSE sRelevantTopics,
                             [i \in 1..Len(relevantTopics) |-> topicLine(relevantTopics[i])])
                    \o <<"\n", "\n">>
                    \o block(IF ms THEN sKonsepPenting ELSE sRelevantConcepts,
                             [i \in 1..Len(relevantConcepts) |-> conceptLine(relevantConcepts[i])])
                    \o <<"\n", "\n">>
                    \o (IF ms THEN sBahagianTranskrip ELSE sRelevantSections) \o <<"\n">>
                    \o join([i \in 1..Len(relevantChunks) |-> sectionText(relevantChunks[i])],
                            <<"\n", "\n">>)
                    \o <<"\n", "\n">>
                    \o (IF ms THEN sSoalan ELSE sQuestion) \o query)

(***************************************************************************)
(* analyzeTranscript                                                       *)
(***************************************************************************)

\* the chat completion: it failed (the call threw), or it answered with a
\* content that is no JSON text (kind "invalid") or the text of a JSON value
LlmFailed == [ok |-> FALSE]

LlmReplied(content) == [ok |-> TRUE, content |-> content]

NotJson == [kind |-> "invalid"]

JsonText(value) == [kind |-> "json", value |-> value]

\* arr.map(e => e.k) followed by .map(t => t.split(':')) throws: arr is no
\* array, an element is null, or e.k is no string
TimestampsThrow(arr, k) ==
    \/ arr.t # "array"
    \/ \E i \in 1..Len(arr.v) : Nullish(arr.v[i]) \/ Prop(arr.v[i], k).t # "string"

\* the try block around JSON.parse and the coverage validation ends in its
\* catch clause
parseThrows(content) ==
    \/ content.kind = "invalid"
    \/ Nullish(content.value)
    \/ TimestampsThrow(Prop(content.value, "mainTopics"), "timestamp")
    \/ TimestampsThrow(Prop(content.value, "timeline"), "time")

\* Number(s) for a string of decimal digits; Number('') is 0
numberOf(s) == parseDigits(s, 1, 0)

\* the seconds of one timestamp of the reply, "M:SS" or "H:MM:SS" with
\* decimal digits between the colons
coverageSeconds(t) ==
    LET parts == split(t, ":")
    IN IF Len(parts) = 3
       THEN numberOf(parts[1]) * 3600 + numberOf(parts[2]) * 60 + numberOf(parts[3])
       ELSE numberOf(parts[1]) * 60 + numberOf(parts[2])

\* the timestamps of mainTopics and timeline in seconds, sorted ascending
coverageTimestamps(value) ==
    LET topics == Prop(value, "mainTopics").v
        timeline == Prop(value, "timeline").v
    IN SortSeq([i \in 1..Len(topics) |-> coverageSeconds(Prop(topics[i], "timestamp").v)]
                   \o [i \in 1..Len(timeline) |-> coverageSeconds(Prop(timeline[i], "time").v)],
               LAMBDA a, b : a < b)

hasLargeGaps_gapsOnly(value) ==
    LET timestamps == coverageTimestamps(value)
    IN \E i \in 2..Len(timestamps) : timestamps[i] - timestamps[i - 1] > 180

\* timestamps.some(...): the first one is beyond 180, or two neighbours are
\* more than 180 apart
hasLargeGaps(value) ==
    LET timestamps == coverageTimestamps(value)
    IN \E i \in 1..Len(timestamps) :
           IF i = 1 THEN timestamps[i] > 180
           ELSE timestamps[i] - timestamps[i - 1] > 180

\* chunks.filter((_, i) => i % n === 0)
everyNth(chunks, n) == [k \in 1..((Len(chunks) + n - 1) \div n) |-> chunks[(k - 1) * n + 1]]

sEllipsis == <<".", ".", ".">>

sSection == <<"S", "e", "c", "t", "i", "o", "n", " ">>

sVideoContent == <<"V", "i", "d", "e", "o", " ", "C", "o", "n", "t", "e", "n", "t">>

sMainContent == <<"M", "a", "i", "n", " ", "c", "o", "n", "t", "e", "n", "t", " ", "o", "f", " ", "t", "h", "e", " ", "v", "i", "d", "e", "o">>

sVideoAnalysis == <<" ", "v", "i", "d", "e", "o", " ", "a", "n", "a", "l", "y", "s", "i", "s">>

fallbackMainTopics_everyOther(chunks) ==
    LET sel == everyNth(chunks, 2)
    IN [i \in 1..Len(sel) |->
           JObj([topic |-> JStr(sSection \o Dec(i)),
                 timestamp |-> JStr(formatDuration(sel[i].startTime)),
                 description |-> JStr(slice0(sel[i].text, 100) \o sEllipsis)])]

fallbackMainTopics(chunks) ==
    LET sel == everyNth(chunks, 3)
    IN [i \in 1..Len(sel) |->
           JObj([topic |-> JStr(sSection \o Dec(i)),
                 timestamp |-> JStr(formatDuration(sel[i].startTime)),
                 description |-> JStr(slice0(sel[i].text, 100) \o sEllipsis)])]

fallbackTimeline(chunks) ==
    LET sel == everyNth(chunks, 2)
    IN [i \in 1..Len(sel) |->
           JObj([time |-> JStr(formatDuration(sel[i].startTime)),
                 event |-> JStr(slice0(sel[i].text, 50) \o sEllipsis)])]

\* the structured fallback analysis of the inner catch clause
fallbackAnalysis(chunks, metadata) ==
    JObj([summary |-> JStr(metadata.title \o <<" ", "-", " ">>
                               \o formatDuration(metadata.duration) \o sVideoAnalysis),
          mainTopics |-> JArr(fallbackMainTopics(chunks)),
          keyConcepts |-> JArr(<<JObj([concept |-> JStr(sVideoContent),
                                       definition |-> JStr(sMainContent)])>>),
          timeline |-> JArr(fallbackTimeline(chunks))])

parsedOrFallback_undefinedOnReject(chunks, metadata, content) ==
    IF parseThrows(content)
    THEN JUndefined
    ELSE content.value

\* what the inner try block returns for a content string
parsedOrFallback(chunks, metadata, content) ==
    IF parseThrows(content)
    THEN fallbackAnalysis(chunks, metadata)
    ELSE content.value

analyzeTranscript_rethrowsRejected(transcript, metadata, llm) ==
    IF ~llm.ok \/ parseThrows(llm.content) THEN Throw
    ELSE Return(llm.content.value)

analyzeTranscript_swallowsFailure(transcript, metadata, llm) ==
    LET chunks == chunkTranscript(transcript).chunks
    IN IF ~llm.ok THEN Return(JUndefined)
       ELSE Return(parsedOrFallback(chunks, metadata, llm.content))

analyzeTranscript_fallbackOnFailure(transcript, metadata, llm) ==
    LET chunks == chunkTranscript(transcript).chunks
    IN IF ~llm.ok THEN Return(fallbackAnalysis(chunks, metadata))
       ELSE Return(parsedOrFallback(chunks, metadata, llm.content))

\* llm is the outcome of the chat completion the function awaits
analyzeTranscript(transcript, metadata, llm) ==
    LET chunks == chunkTranscript(transcript).chunks
    IN IF ~llm.ok THEN Throw
       ELSE Return(parsedOrFallback(chunks, metadata, llm.content))

(***************************************************************************)
(* Inputs                                                                  *)
(***************************************************************************)

sHello == <<"h", "e", "l", "l", "o", " ", "w", "o", "r", "l", "d">>

sMore == <<"m", "o", "r", "e", " ", "t", "e", "x", "t", " ", "h", "e", "r", "e">>

\* transcript items as the acquisition step hands them over, without their
\* offsets: a caption text (trimmed, not empty) and a duration
ChunkItemPool ==
    <<[text |-> sHello, duration |-> 2000],
      [text |-> sMore, duration |-> 3000],
      [text |-> <<"k">>, duration |-> 0],
      [text |-> Pad("a", MAX_CHUNK_LENGTH - 1), duration |-> 4000],
      [text |-> Pad("b", MAX_CHUNK_LENGTH), duration |-> 5000]>>

\* the longest transcript chunkTranscript is applied to
MaxItems == 3

\* the captions follow each other: an item starts where the one before it ends
RECURSIVE OffsetAt(_, _)
OffsetAt(its, i) == IF i = 1 THEN 0 ELSE OffsetAt(its, i - 1) + its[i - 1].duration

Transcript(its) ==
    [i \in 1..Len(its) |->
        [text |-> its[i].text, offset |-> OffsetAt(its, i), duration |-> its[i].duration]]

TranscriptsOver(pool, maxLen) ==
    UNION {{Transcript([i \in 1..n |-> pool[idx[i]]]) : idx \in [1..n -> 1..Len(pool)]} :
              n \in 0..maxLen}

(***************************************************************************)
(* The server before its first request                                     *)
(***************************************************************************)

EmptyMap == [k \in {} |-> TRUE]

ServerIdle ==
    /\ transcriptCache = EmptyMap
    /\ videoAnalysisCache = EmptyMap
    /\ reqs = <<>>
    /\ fetchCalls = 0
    /\ llmCalls = 0

serverVars == <<transcriptCache, videoAnalysisCache, reqs, fetchCalls, llmCalls>>

(***************************************************************************)
(* chunkTranscript applied to every transcript of up to MaxItems items     *)
(***************************************************************************)

InitChunk ==
    /\ \E t \in TranscriptsOver(ChunkItemPool, MaxItems) :
           call = [fn |-> "chunkTranscript", transcript |-> t]
    /\ ret = <<>>
    /\ ServerIdle

CallChunkTranscript ==
    /\ call.fn = "chunkTranscript"
    /\ ret = <<>>
    /\ ret' = <<chunkTranscript(call.transcript)>>
    /\ UNCHANGED <<call, serverVars>>

NextChunk == CallChunkTranscript

SpecChunk == InitChunk /\ [][NextChunk]_vars

Chunked == call.fn = "chunkTranscript" /\ ret # <<>>

\* the items of the chunks, concatenated in chunk order
RECURSIVE ConcatItems(_)
ConcatItems(chunks) ==
    IF Len(chunks) = 0 THEN <<>> ELSE chunks[1].items \o ConcatItems(Tail(chunks))

RECURSIVE SumDurations(_)
SumDurations(transcript) ==
    IF Len(transcript) = 0 THEN 0
    ELSE transcript[1].duration + SumDurations(Tail(transcript))

\* C1: the item sequences of the chunks, concatenated in chunk order, are
\* the input sequence: nothing dropped, duplicated, reordered or shared.
C1_LosslessPartition ==
    Chunked => ConcatItems(ret[1].chunks) = call.transcript

\* C1 witness: three items split into a closed chunk and a trailing, shorter one
C1_Witness ==
    /\ Chunked
    /\ Len(call.transcript) = 3
    /\ Len(ret[1].chunks) = 2
    /\ Len(ret[1].chunks[1].items) = 2
    /\ Len(ret[1].chunks[2].text) < MAX_CHUNK_LENGTH

\* C2: every chunk starts at the offset of its first item and ends at the
\* offset plus the duration of its last item.
C2_ChunkTimes ==
    Chunked =>
        \A c \in 1..Len(ret[1].chunks) :
            LET items == ret[1].chunks[c].items
            IN /\ Len(items) > 0
               /\ ret[1].chunks[c].startTime = items[1].offset
               /\ ret[1].chunks[c].endTime
                      = items[Len(items)].offset + items[Len(items)].duration

\* C2 witness: a chunk of several items whose last item has a duration
C2_Witness ==
    /\ Chunked
    /\ \E c \in 1..Len(ret[1].chunks) :
           /\ Len(ret[1].chunks[c].items) >= 2
           /\ ret[1].chunks[c].items[Len(ret[1].chunks[c].items)].duration > 0
           /\ ret[1].chunks[c].startTime > 0

\* C3: totalDuration is the sum of the durations of all input items,
\* wherever the chunk boundaries fall.
C3_TotalDuration ==
    Chunked => ret[1].totalDuration = SumDurations(call.transcript)

\* C3 witness: a chunk is closed before the last item, and items on both
\* sides of the boundary have a duration
C3_Witness ==
    /\ Chunked
    /\ Len(ret[1].chunks) >= 2
    /\ ret[1].chunks[1].items[1].duration > 0
    /\ ret[1].chunks[2].items[1].duration > 0
    /\ ret[1].totalDuration > 0

\* the sum of the text lengths of the items
RECURSIVE SumTextLengths(_)
SumTextLengths(items) ==
    IF Len(items) = 0 THEN 0
    ELSE Len(items[1].text) + SumTextLengths(Tail(items))

\* the texts of the items (at least one), one space between neighbours
RECURSIVE SpacedText(_)
SpacedText(items) ==
    IF Len(items) = 1 THEN items[1].text
    ELSE items[1].text \o <<" ">> \o SpacedText(Tail(items))

\* C23: a non-empty transcript whose text lengths sum to less than 1500
\* gives exactly one chunk, which holds all items, spans from the first
\* offset to the last offset plus duration, and whose text is the item texts
\* joined by single spaces; an empty transcript gives no chunk and a total
\* duration of zero.
C23_ShortTranscriptOneChunk ==
    Chunked =>
        LET t == call.transcript
            r == ret[1]
        IN /\ Len(t) = 0 => r.chunks = <<>> /\ r.totalDuration = 0
           /\ (Len(t) > 0 /\ SumTextLengths(t) < 1500) =>
                  /\ Len(r.chunks) = 1
                  /\ r.chunks[1].items = t
                  /\ r.chunks[1].startTime = t[1].offset
                  /\ r.chunks[1].endTime = t[Len(t)].offset + t[Len(t)].duration
                  /\ r.chunks[1].text = SpacedText(t)

\* C23 witness: the two captions "hello world" (0, 2000) and "more text
\* here" (2000, 3000) give one chunk over [0, 5000]
C23_Witness ==
    /\ Chunked
    /\ call.transcript = <<[text |-> sHello, offset |-> 0, duration |-> 2000],
                           [text |-> sMore, offset |-> 2000, duration |-> 3000]>>
    /\ Len(ret[1].chunks) = 1
    /\ ret[1].chunks[1].startTime = 0
    /\ ret[1].chunks[1].endTime = 5000
    /\ ret[1].chunks[1].text = sHello \o <<" ">> \o sMore

\* C24: every chunk holds at least one item; every chunk but the last has
\* text lengths summing to at least 1500, and to less than 1500 without its
\* last item, so only the final chunk may sum to less than 1500.
C24_ClosedAtThreshold ==
    Chunked =>
        \A c \in 1..Len(ret[1].chunks) :
            LET items == ret[1].chunks[c].items
            IN /\ Len(items) >= 1
               /\ c < Len(ret[1].chunks) =>
                      /\ SumTextLengths(items) >= 1500
                      /\ SumTextLengths(SubSeq(items, 1, Len(items) - 1)) < 1500

\* C24 witness: a chunk closed by the item that brings the sum to 1500
\* exactly, followed by a final, shorter chunk
C24_Witness ==
    /\ Chunked
    /\ Len(ret[1].chunks) = 2
    /\ Len(ret[1].chunks[1].items) = 2
    /\ SumTextLengths(ret[1].chunks[1].items) = 1500
    /\ SumTextLengths(ret[1].chunks[2].items) < 1500


(***************************************************************************)
(* getRelevantChunks applied to the chunks of a transcript, a query and an *)
(* analysis in the AnalysisResult shape                                    *)
(***************************************************************************)

\* a caption text of MAX_CHUNK_LENGTH characters that starts with s, so that
\* the item closes a chunk of its own
LongText(s) == s \o Pad("x", MAX_CHUNK_LENGTH - Len(s))

MatchItemPool ==
    <<[text |-> LongText(<<"M", "a", "c", "h", "i", "n", "e", " ", "l", "e", "a", "r", "n", "i", "n", "g", " ", "i", "n", "t", "r", "o", " ">>), duration |-> 10],
      [text |-> LongText(<<"s", "o", "m", "e", " ", "P", "y", "t", "h", "o", "n", " ", "c", "o", "d", "e", " ">>), duration |-> 390],
      [text |-> Pad("z", MAX_CHUNK_LENGTH), duration |-> 1000]>>

\* the longest transcript whose chunks getRelevantChunks is applied to
MaxMatchItems == 3

Queries ==
    {<<"0">>,
     <<"a", "t", " ", "8", ":", "0", "0">>,
     <<"M", "a", "c", "h", "i", "n", "e", " ", "L", "e", "a", "r", "n", "i", "n", "g", " ", "a", "t", " ", "1", ":", "0", "0", ":", "0", "0">>,
     <<"w", "h", "a", "t", " ", "a", "b", "o", "u", "t", " ", "M", "a", "c", "h", "i", "n", "e", " ", "L", "e", "a", "r", "n", "i", "n", "g">>,
     <<"l", "e", "a", "r", "n">>,
     <<"m", "a", "c", "h", "i", "n", "e">>,
     <<"i", "s", "\n", "m", "a", "c", "h", "i", "n", "e">>,
     <<"t", "h", "e", " ", "P", "y", "t", "h", "o", "n", " ", "c", "o", "d", "e">>,
     <<"w", "h", "y", " ", "i", "s", " ", "i", "t", " ", "s", "o">>}

TopicEntry(topic, timestamp) ==
    JObj([topic |-> JStr(topic), timestamp |-> JStr(timestamp),
          description |-> JStr(<<"d">>)])

ConceptEntry(concept) ==
    JObj([concept |-> JStr(concept), definition |-> JStr(<<"d">>)])

AnalysisOf(mainTopics, keyConcepts) ==
    JObj([summary |-> JStr(<<"s">>),
          mainTopics |-> JArr(mainTopics),
          keyConcepts |-> JArr(keyConcepts),
          timeline |-> JArr(<<JObj([time |-> JStr(<<"0", ":", "0", "0">>),
                                    event |-> JStr(<<"e">>)])>>)])

sMachineLearning == <<"M", "a", "c", "h", "i", "n", "e", " ", "L", "e", "a", "r", "n", "i", "n", "g">>

sLearn == <<"L", "e", "a", "r", "n">>

sPython == <<"P", "y", "t", "h", "o", "n">>

ts640 == <<"6", ":", "4", "0">>

ts005 == <<"0", ":", "0", "5">>

Analyses ==
    {AnalysisOf(<<TopicEntry(sMachineLearning, ts640), TopicEntry(sLearn, ts005)>>,
                <<ConceptEntry(sPython)>>),
     AnalysisOf(<<TopicEntry(sMachineLearning, <<>>), TopicEntry(sLearn, ts640)>>,
                <<ConceptEntry(sPython)>>),
     AnalysisOf(<<>>, <<>>)}

InitMatch ==
    /\ \E t \in TranscriptsOver(MatchItemPool, MaxMatchItems) :
           LET chunks == chunkTranscript(t).chunks
           IN \E q \in Queries, a \in Analyses :
                  call = [fn |-> "getRelevantChunks", chunks |-> chunks,
                          query |-> q, analysis |-> a]
    /\ ret = <<>>
    /\ ServerIdle

CallGetRelevantChunks ==
    /\ call.fn = "getRelevantChunks"
    /\ ret = <<>>
    /\ ret' = <<getRelevantChunks(call.chunks, call.query, call.analysis)>>
    /\ UNCHANGED <<call, serverVars>>

NextMatch == CallGetRelevantChunks

SpecMatch == InitMatch /\ [][NextMatch]_vars

Matched == call.fn = "getRelevantChunks" /\ ret # <<>>

\* the query holds a timestamp token: some digit occurs in it
HasTimestamp(query) == \E p \in 1..Len(query) : IsDigit(query[p])

\* the seconds the first timestamp token of the query parses to
QuerySeconds(query) == targetSecondsOf(timeMatch(query).token).n

\* the chunks whose start or whose end lies within 300 of t
StartOrEndNear(chunks, t) ==
    SelectSeq(chunks,
        LAMBDA c : \/ t - 300 <= c.startTime /\ c.startTime <= t + 300
                   \/ t - 300 <= c.endTime /\ c.endTime <= t + 300)

\* the chunks whose interval [startTime, endTime] meets [t - 300, t + 300]
Intersecting(chunks, t) ==
    SelectSeq(chunks, LAMBDA c : c.startTime <= t + 300 /\ c.endTime >= t - 300)

\* the lower-cased topic strings of the analysis
TopicsLower(analysis) ==
    [i \in 1..Len(analysis.v.mainTopics.v) |->
        toLowerCase(analysis.v.mainTopics.v[i].v.topic.v)]

TopicTimestamp(analysis, i) == analysis.v.mainTopics.v[i].v.timestamp.v

\* the pieces of s between whitespace characters
RECURSIVE WhitespaceTokensFrom(_, _, _)
WhitespaceTokensFrom(s, i, piece) ==
    IF i > Len(s) THEN <<piece>>
    ELSE IF s[i] \in {" ", "\n"} THEN <<piece>> \o WhitespaceTokensFrom(s, i + 1, <<>>)
    ELSE WhitespaceTokensFrom(s, i + 1, Append(piece, s[i]))

\* the chunks whose lower-cased text holds a token, longer than 3, of tokens
HoldingToken(chunks, tokens) ==
    SelectSeq(chunks,
        LAMBDA c : \E w \in 1..Len(tokens) :
                       Len(tokens[w]) > 3 /\ includes(toLowerCase(c.text), tokens[w]))

\* C4 (as claimed): with a timestamp token parsing to t, the result is exactly
\* the chunks whose [start, end] interval intersects [t - 300, t + 300].
C4_WindowIntersects ==
    (Matched /\ HasTimestamp(call.query)) =>
        /\ ~ret[1].threw
        /\ ret[1].value = Intersecting(call.chunks, QuerySeconds(call.query))

\* C5: with a timestamp token in the query, the result is the time-window
\* filter for that token and nothing else, also when the window is empty.
C5_TimestampAuthoritative ==
    (Matched /\ HasTimestamp(call.query)) =>
        /\ ~ret[1].threw
        /\ ret[1].value = StartOrEndNear(call.chunks, QuerySeconds(call.query))

\* C5 witness: the window selects nothing although a topic of the analysis is
\* named in the query and the query's words occur in a chunk
C5_Witness ==
    /\ Matched
    /\ HasTimestamp(call.query)
    /\ ~ret[1].threw
    /\ ret[1].value = <<>>
    /\ \E i \in 1..Len(TopicsLower(call.analysis)) :
           /\ includes(toLowerCase(call.query), TopicsLower(call.analysis)[i])
           /\ Len(TopicTimestamp(call.analysis, i)) > 0
    /\ HoldingToken(call.chunks, WhitespaceTokensFrom(toLowerCase(call.query), 1, <<>>)) # <<>>

\* topic i of the analysis matches the query in one direction or the other
MatchesEitherWay(analysis, query, i) ==
    \/ includes(toLowerCase(query), TopicsLower(analysis)[i])
    \/ includes(TopicsLower(analysis)[i], toLowerCase(query))

\* C6 (as claimed): without a timestamp token, when a topic matches the query
\* in either direction and carries a timestamp, the result is the window
\* around such a topic's timestamp.
C6_TopicEitherDirection ==
    (/\ Matched
     /\ ~HasTimestamp(call.query)
     /\ \E i \in 1..Len(TopicsLower(call.analysis)) :
            /\ MatchesEitherWay(call.analysis, call.query, i)
            /\ Len(TopicTimestamp(call.analysis, i)) > 0)
    => /\ ~ret[1].threw
       /\ \E i \in 1..Len(TopicsLower(call.analysis)) :
              /\ MatchesEitherWay(call.analysis, call.query, i)
              /\ Len(TopicTimestamp(call.analysis, i)) > 0
              /\ ret[1].value = StartOrEndNear(call.chunks,
                                    targetSecondsOf(TopicTimestamp(call.analysis, i)).n)

\* the first topic whose non-empty lower-cased string occurs in the
\* lower-cased query, provided no topic before it occurs in it; 0 for none
FirstTopicInQuery(analysis, query) ==
    LET in == {i \in 1..Len(TopicsLower(analysis)) :
                   includes(toLowerCase(query), TopicsLower(analysis)[i])}
    IN IF in = {} THEN 0 ELSE CHOOSE i \in in : \A j \in in : i <= j

\* C6 (amended): without a timestamp token, when the first topic whose
\* lower-cased string occurs in the lower-cased query is not empty and
\* carries a non-empty timestamp, the result is the chunks whose start or end
\* lies within 300 of that topic's timestamp.
C6_TopicInQuery ==
    (/\ Matched
     /\ ~HasTimestamp(call.query)
     /\ FirstTopicInQuery(call.analysis, call.query) # 0
     /\ Len(TopicsLower(call.analysis)[FirstTopicInQuery(call.analysis, call.query)]) > 0
     /\ Len(TopicTimestamp(call.analysis, FirstTopicInQuery(call.analysis, call.query))) > 0)
    => /\ ~ret[1].threw
       /\ ret[1].value =
              StartOrEndNear(call.chunks,
                  targetSecondsOf(TopicTimestamp(call.analysis,
                      FirstTopicInQuery(call.analysis, call.query))).n)

\* C6 witness: the topic named in the query selects chunks by its timestamp,
\* and they are not the chunks that hold the query's words
C6_Witness ==
    /\ Matched
    /\ ~HasTimestamp(call.query)
    /\ FirstTopicInQuery(call.analysis, call.query) # 0
    /\ Len(TopicTimestamp(call.analysis, FirstTopicInQuery(call.analysis, call.query))) > 0
    /\ ~ret[1].threw
    /\ ret[1].value # <<>>
    /\ ret[1].value # HoldingToken(call.chunks,
                          WhitespaceTokensFrom(toLowerCase(call.query), 1, <<>>))

\* C7 (as claimed): when the query has no timestamp token and no topic
\* matches it, the result is exactly the chunks whose lower-cased text holds a
\* whitespace-separated token, longer than 3 characters, of the lower-cased
\* query.
C7_WhitespaceTokens ==
    (/\ Matched
     /\ ~HasTimestamp(call.query)
     /\ \A i \in 1..Len(TopicsLower(call.analysis)) :
            ~MatchesEitherWay(call.analysis, call.query, i))
    => /\ ~ret[1].threw
       /\ ret[1].value = HoldingToken(call.chunks,
                             WhitespaceTokensFrom(toLowerCase(call.query), 1, <<>>))


(***************************************************************************)
(* analyzeTranscript applied to a transcript, its metadata and every       *)
(* outcome of the chat completion                                          *)
(***************************************************************************)

\* what analyzeTranscript writes with console.error and console.warn
analysisLogged(llm) ==
    IF ~llm.ok THEN {"Analysis Error"}
    ELSE IF parseThrows(llm.content) THEN {"JSON Parse Error"}
    ELSE IF hasLargeGaps(llm.content.value)
         THEN {"Warning: Analysis contains gaps larger than 3 minutes"}
    ELSE {}

\* a caption text of MAX_CHUNK_LENGTH characters whose first 50, next 50 and
\* remaining characters differ
sLongCaption == Pad("a", 50) \o Pad("b", 50) \o Pad("c", MAX_CHUNK_LENGTH - 100)

AnalyzeItemPool ==
    <<[text |-> sLongCaption, duration |-> 90000],
      [text |-> sHello, duration |-> 2000]>>

\* the longest transcript analyzeTranscript is applied to
MaxAnalyzeItems == 6

sTitle == <<"Y", "o", "u", "T", "u", "b", "e", " ", "V", "i", "d", "e", "o">>

\* the metadata the /api/transcript handler builds for a transcript
MetadataOf(title, transcript) ==
    [title |-> title, duration |-> chunkTranscript(transcript).totalDuration,
     author |-> "YouTube Creator"]

\* a reply in the requested format
GoodAnalysis ==
    AnalysisOf(<<TopicEntry(sMachineLearning, ts640), TopicEntry(sLearn, ts005)>>,
               <<ConceptEntry(sPython)>>)

AnalysisKeys == {"summary", "mainTopics", "keyConcepts", "timeline"}

\* the reply cut down to the keys of keep
Restrict(obj, keep) == JObj([k \in keep |-> obj.v[k]])

\* the contents the completion may carry: no JSON, null, the good reply with
\* any of its four keys missing, a topic without a timestamp, a timeline that
\* is no array
Contents ==
    {NotJson, JsonText(JNull)}
    \cup {JsonText(Restrict(GoodAnalysis, keep)) : keep \in SUBSET AnalysisKeys}
    \cup {JsonText(JObj([summary |-> JStr(<<"s">>),
                         mainTopics |-> JArr(<<JObj([topic |-> JStr(sPython)])>>),
                         keyConcepts |-> JArr(<<>>),
                         timeline |-> JArr(<<>>)])),
          JsonText(JObj([summary |-> JStr(<<"s">>),
                         mainTopics |-> JArr(<<>>),
                         keyConcepts |-> JArr(<<>>),
                         timeline |-> JStr(ts640)]))}

LlmOutcomes == {LlmFailed} \cup {LlmReplied(c) : c \in Contents}

InitAnalyze ==
    /\ \E t \in TranscriptsOver(AnalyzeItemPool, MaxAnalyzeItems) :
           LET metadata == MetadataOf(sTitle, t)
           IN \E llm \in LlmOutcomes :
                  call = [fn |-> "analyzeTranscript", transcript |-> t,
                          metadata |-> metadata, llm |-> llm]
    /\ ret = <<>>
    /\ ServerIdle

CallAnalyzeTranscript ==
    /\ call.fn = "analyzeTranscript"
    /\ ret = <<>>
    /\ ret' = <<analyzeTranscript(call.transcript, call.metadata, call.llm),
                 analysisLogged(call.llm)>>
    /\ llmCalls' = llmCalls + 1
    /\ UNCHANGED <<call, transcriptCache, videoAnalysisCache, reqs, fetchCalls>>

NextAnalyze == CallAnalyzeTranscript

SpecAnalyze == InitAnalyze /\ [][NextAnalyze]_vars

Analyzed == call.fn = "analyzeTranscript" /\ ret # <<>>

\* the value has the four top-level keys, a string and three arrays
HasAnalysisKeys(v) ==
    /\ v.t = "object"
    /\ AnalysisKeys \subseteq DOMAIN v.v
    /\ v.v.summary.t = "string"
    /\ v.v.mainTopics.t = "array"
    /\ v.v.keyConcepts.t = "array"
    /\ v.v.timeline.t = "array"

\* C8 (as claimed): every value analyzeTranscript returns has the four
\* top-level keys summary, mainTopics, keyConcepts and timeline.
C8_NeverMalformed ==
    (Analyzed /\ ~ret[1].threw) => HasAnalysisKeys(ret[1].value)

\* the chunk list analyzeTranscript works on
AnalyzedChunks == chunkTranscript(call.transcript).chunks

\* the first n characters of s
FirstChars(s, n) == [i \in 1..(IF Len(s) < n THEN Len(s) ELSE n) |-> s[i]]

\* the reply could not be parsed
ReplyUnparsable == call.llm.ok /\ call.llm.content.kind = "invalid"

\* C9: the fallback analysis is a function of the chunk list (plus title and
\* duration): mainTopics has one entry per chunk index 0,3,6,..., the k-th
\* labelled "Section k" with that chunk's formatted start time and the first
\* 100 characters of its text plus "..."; keyConcepts is one fixed entry;
\* timeline has one entry per chunk index 0,2,4,... with the formatted start
\* time and the first 50 characters plus "...".
C9_FallbackFromChunks ==
    (Analyzed /\ ReplyUnparsable) =>
        /\ ~ret[1].threw
        /\ DOMAIN ret[1].value.v = AnalysisKeys
        /\ LET topics == ret[1].value.v.mainTopics.v
               chunks == AnalyzedChunks
           IN /\ Len(topics) = (Len(chunks) + 2) \div 3
              /\ \A k \in 1..Len(topics) :
                     topics[k] =
                         JObj([topic |-> JStr(<<"S", "e", "c", "t", "i", "o", "n", " ">> \o Dec(k)),
                               timestamp |-> JStr(formatDuration(chunks[3 * (k - 1) + 1].startTime)),
                               description |->
                                   JStr(FirstChars(chunks[3 * (k - 1) + 1].text, 100)
                                            \o <<".", ".", ".">>)])
        /\ ret[1].value.v.keyConcepts =
               JArr(<<JObj([concept |-> JStr(<<"V", "i", "d", "e", "o", " ", "C", "o", "n", "t", "e", "n", "t">>),
                            definition |-> JStr(<<"M", "a", "i", "n", " ", "c", "o", "n", "t", "e", "n", "t", " ", "o", "f", " ", "t", "h", "e", " ", "v", "i", "d", "e", "o">>)])>>)
        /\ LET timeline == ret[1].value.v.timeline.v
               chunks == AnalyzedChunks
           IN /\ Len(timeline) = (Len(chunks) + 1) \div 2
              /\ \A k \in 1..Len(timeline) :
                     timeline[k] =
                         JObj([time |-> JStr(formatDuration(chunks[2 * (k - 1) + 1].startTime)),
                               event |->
                                   JStr(FirstChars(chunks[2 * (k - 1) + 1].text, 50)
                                            \o <<".", ".", ".">>)])

\* C9 witness: a fallback over six chunks, with topics taken from the chunks
\* of index 0 and 3, events from 0, 2 and 4, and a text that is cut at 100
\* characters
C9_Witness ==
    /\ Analyzed
    /\ ReplyUnparsable
    /\ Len(AnalyzedChunks) = 6
    /\ Len(AnalyzedChunks[4].text) > 100
    /\ AnalyzedChunks[4].startTime # AnalyzedChunks[3].startTime
    /\ Len(ret[1].value.v.mainTopics.v) = 2
    /\ Len(ret[1].value.v.timeline.v) = 3

\* the reply is rejected inside the try block: it is no JSON text, or its
\* value has no mainTopics array of entries with a string timestamp, or no
\* timeline array of entries with a string time
ReplyRejected ==
    /\ call.llm.ok
    /\ \/ call.llm.content.kind = "invalid"
       \/ LET v == call.llm.content.value
              StringsAt(k, f) ==
                  /\ v.t = "object"
                  /\ k \in DOMAIN v.v
                  /\ v.v[k].t = "array"
                  /\ \A i \in 1..Len(v.v[k].v) :
                         /\ v.v[k].v[i].t = "object"
                         /\ f \in DOMAIN v.v[k].v[i].v
                         /\ v.v[k].v[i].v[f].t = "string"
          IN ~(StringsAt("mainTopics", "timestamp") /\ StringsAt("timeline", "time"))

\* the summary, the topic labels and the sizes of an analysis made from the
\* n chunks and the metadata alone
MadeFromChunks(v, chunks, metadata) ==
    /\ v.t = "object"
    /\ DOMAIN v.v = AnalysisKeys
    /\ v.v.summary =
           JStr(metadata.title \o <<" ", "-", " ">> \o formatDuration(metadata.duration)
                    \o <<" ", "v", "i", "d", "e", "o", " ", "a", "n", "a", "l", "y", "s", "i", "s">>)
    /\ Len(v.v.mainTopics.v) = (Len(chunks) + 2) \div 3
    /\ \A k \in 1..Len(v.v.mainTopics.v) :
           /\ v.v.mainTopics.v[k].v.topic.v[1] = "S"
           /\ v.v.mainTopics.v[k].v.timestamp =
                  JStr(formatDuration(chunks[3 * (k - 1) + 1].startTime))
    /\ Len(v.v.keyConcepts.v) = 1
    /\ Len(v.v.timeline.v) = (Len(chunks) + 1) \div 2
    /\ \A k \in 1..Len(v.v.timeline.v) :
           v.v.timeline.v[k].v.time = JStr(formatDuration(chunks[2 * (k - 1) + 1].startTime))

\* C11 (as claimed): when the reply is rejected, or the chat completion
\* itself fails, analyzeTranscript returns the fallback analysis made from
\* the chunk list, and it has called the completion once only.
C11_FallbackOnAnyFailure ==
    (Analyzed /\ (~call.llm.ok \/ ReplyRejected)) =>
        /\ ~ret[1].threw
        /\ MadeFromChunks(ret[1].value, AnalyzedChunks, call.metadata)
        /\ llmCalls = 1

\* C11 (amended): when the completion answers and the reply is rejected,
\* analyzeTranscript returns the fallback analysis made from the chunk list
\* and has called the completion once only; when the completion itself
\* fails, analyzeTranscript throws and returns no analysis.
C11_FallbackOnRejectedReply ==
    /\ (Analyzed /\ ReplyRejected) =>
           /\ ~ret[1].threw
           /\ MadeFromChunks(ret[1].value, AnalyzedChunks, call.metadata)
           /\ llmCalls = 1
    /\ (Analyzed /\ ~call.llm.ok) => (ret[1].threw /\ llmCalls = 1)

\* C11 witness: a reply that is JSON, but whose topic has no timestamp, is
\* answered with the fallback over several chunks
C11_Witness ==
    /\ Analyzed
    /\ ReplyRejected
    /\ call.llm.content.kind = "json"
    /\ call.llm.content.value.t = "object"
    /\ Len(AnalyzedChunks) >= 4
    /\ ~ret[1].threw
    /\ MadeFromChunks(ret[1].value, AnalyzedChunks, call.metadata)
    /\ llmCalls = 1

\* C12 (as claimed): whenever JSON.parse accepts the reply, whatever its
\* timestamp values are, analyzeTranscript returns the parsed value.
C12_ValidationNeverAlters ==
    (Analyzed /\ call.llm.ok /\ call.llm.content.kind = "json") =>
        /\ ~ret[1].threw
        /\ ret[1].value = call.llm.content.value

(***************************************************************************)
(* formatDuration applied to whole numbers of seconds                      *)
(***************************************************************************)

\* formatDuration is applied to every number of seconds up to this one
MaxSeconds == 130

\* ... and to durations around one hour, ten hours, a day and a hundred hours
Durations ==
    (0..MaxSeconds)
    \cup {599, 600, 3540, 3599, 3600, 3601, 3660, 3661, 4209, 7199, 7200, 35999, 36000,
          36610, 86399, 86400, 359999, 360000, 362439}

InitFormat ==
    /\ \E seconds \in Durations : call = [fn |-> "formatDuration", seconds |-> seconds]
    /\ ret = <<>>
    /\ ServerIdle

CallFormatDuration ==
    /\ call.fn = "formatDuration"
    /\ ret = <<>>
    /\ ret' = <<formatDuration(call.seconds)>>
    /\ UNCHANGED <<call, serverVars>>

NextFormat == CallFormatDuration

SpecFormat == InitFormat /\ [][NextFormat]_vars

Formatted == call.fn = "formatDuration" /\ ret # <<>>

\* C18: for every whole number s of seconds, the text formatDuration(s) is
\* read back as s by the query matcher's fold over the colon-separated parts
\* (acc * 60 + parseInt(part)) and by the coverage validation's two- or
\* three-part sum.
C18_ParseInvertsFormat ==
    Formatted =>
        /\ targetSecondsOf(ret[1]) = [nan |-> FALSE, n |-> call.seconds]
        /\ coverageSeconds(ret[1]) = call.seconds

\* C18 witness: a duration with hours, minutes and seconds, none of them
\* zero, is read back from its three parts
C18_Witness ==
    /\ Formatted
    /\ call.seconds \div 3600 > 0
    /\ (call.seconds % 3600) \div 60 > 0
    /\ call.seconds % 60 > 0
    /\ Len(split(ret[1], ":")) = 3
    /\ targetSecondsOf(ret[1]).n = call.seconds
    /\ coverageSeconds(ret[1]) = call.seconds

\* the text is decimal digits only
AllDigits(s) == Len(s) > 0 /\ \A i \in 1..Len(s) : IsDigit(s[i])

\* two decimal digits that read as a number from 00 to 59
TwoDigitsBelow60(s) == Len(s) = 2 /\ AllDigits(s) /\ numberOf(s) <= 59

\* decimal digits without a leading zero (a lone 0 excepted)
Unpadded(s) == AllDigits(s) /\ (Len(s) > 1 => s[1] # "0")

\* C19: formatDuration renders s seconds as M:SS when s < 3600 and as H:MM:SS
\* otherwise; the seconds are two digits from 00 to 59, the minutes of an
\* H:MM:SS text are two digits from 00 to 59, and the leading part is the
\* whole minutes (M:SS) or whole hours (H:MM:SS) without padding.
C19_DurationShape ==
    Formatted =>
        LET parts == split(ret[1], ":")
        IN IF call.seconds < 3600
           THEN /\ Len(parts) = 2
                /\ Unpadded(parts[1]) /\ numberOf(parts[1]) = call.seconds \div 60
                /\ TwoDigitsBelow60(parts[2]) /\ numberOf(parts[2]) = call.seconds % 60
           ELSE /\ Len(parts) = 3
                /\ Unpadded(parts[1]) /\ numberOf(parts[1]) = call.seconds \div 3600
                /\ TwoDigitsBelow60(parts[2])
                /\ numberOf(parts[2]) = (call.seconds % 3600) \div 60
                /\ TwoDigitsBelow60(parts[3]) /\ numberOf(parts[3]) = call.seconds % 60

\* C19 witness: with an hour present, minutes and seconds below ten are
\* both padded to two digits
C19_Witness ==
    /\ Formatted
    /\ call.seconds >= 3600
    /\ (call.seconds % 3600) \div 60 \in 1..9
    /\ call.seconds % 60 \in 1..9
    /\ LET parts == split(ret[1], ":")
       IN /\ Len(parts) = 3
          /\ parts[2][1] = "0"
          /\ parts[3][1] = "0"

(***************************************************************************)
(* The server: the two caches and POST /api/transcript                     *)
(***************************************************************************)

\* String.prototype.replace(/pat/g, rep) for a literal pattern
RECURSIVE replaceFrom(_, _, _, _)
replaceFrom(s, pat, rep, i) ==
    IF i > Len(s) THEN <<>>
    ELSE IF MatchesAt(s, pat, i) THEN rep \o replaceFrom(s, pat, rep, i + Len(pat))
    ELSE <<s[i]>> \o replaceFrom(s, pat, rep, i + 1)

replaceAll(s, pat, rep) == replaceFrom(s, pat, rep, 1)

\* String.prototype.trim() for the white space of the model's alphabet
trim(s) ==
    LET inked == {i \in 1..Len(s) : s[i] \notin {" ", "\n"}}
    IN IF inked = {} THEN <<>>
       ELSE SubSeq(s, CHOOSE i \in inked : \A j \in inked : i <= j,
                      CHOOSE i \in inked : \A j \in inked : i >= j)

\* url.replace(/^@/, '')
stripAt(s) == IF Len(s) > 0 /\ s[1] = "@" THEN Tail(s) ELSE s

\* the first position from i on at which s holds a character of stops, or
\* Len(s) + 1 when it holds none
RECURSIVE firstOf(_, _, _)
firstOf(s, stops, i) ==
    IF i > Len(s) \/ s[i] \in stops THEN i ELSE firstOf(s, stops, i + 1)

sHttps == <<"h", "t", "t", "p", "s", ":", "/", "/">>

sHttp == <<"h", "t", "t", "p", ":", "/", "/">>

\* new URL(text) for an absolute http(s) URL without user, port or
\* fragment: hostname, pathname and search; anything else throws
parseUrl(text) ==
    LET scheme == IF MatchesAt(text, sHttps, 1) THEN sHttps
                  ELSE IF MatchesAt(text, sHttp, 1) THEN sHttp
                  ELSE <<>>
        hostStart == Len(scheme) + 1
        hostEnd == firstOf(text, {"/", "?"}, hostStart)
        pathEnd == firstOf(text, {"?"}, hostEnd)
    IN IF Len(scheme) = 0 \/ hostEnd = hostStart \/ includes(text, <<" ">>)
       THEN [ok |-> FALSE]
       ELSE [ok |-> TRUE,
             hostname |-> SubSeq(text, hostStart, hostEnd - 1),
             pathname |-> IF pathEnd = hostEnd THEN <<"/">> ELSE SubSeq(text, hostEnd, pathEnd - 1),
             search |-> SubSeq(text, pathEnd, Len(text))]

\* urlObj.searchParams.get(name): the value of the first name=value pair
\* of the search string, <<>> (null) when no pair has the name
searchParamsGet(search, name) ==
    LET pairs == IF Len(search) <= 1 THEN <<>> ELSE split(Tail(search), "&")
        key(pair) == SubSeq(pair, 1, firstOf(pair, {"="}, 1) - 1)
        value(pair) == SubSeq(pair, firstOf(pair, {"="}, 1) + 1, Len(pair))
        hits == {i \in 1..Len(pairs) : key(pairs[i]) = name}
    IN IF hits = {} THEN <<>> ELSE value(pairs[CHOOSE i \in hits : \A j \in hits : i <= j])

sYoutubeCom == <<"y", "o", "u", "t", "u", "b", "e", ".", "c", "o", "m">>

sYoutuBe == <<"y", "o", "u", "t", "u", ".", "b", "e">>

\* The url of a request body is undefined or a string. null is <<>>.
extractVideoId(url) ==
    IF ~Truthy(url) THEN <<>>
    ELSE IF url.t # "string" THEN <<>>
    ELSE LET urlObj == parseUrl(stripAt(trim(url.v)))
         IN IF ~urlObj.ok THEN <<>>
            ELSE LET pathParts == SelectSeq(split(urlObj.pathname, "/"), LAMBDA part : Len(part) > 0)
                     videoId ==
                         IF includes(urlObj.hostname, sYoutubeCom)
                         THEN searchParamsGet(urlObj.search, <<"v">>)
                         ELSE IF includes(urlObj.hostname, sYoutuBe)
                         THEN IF Len(pathParts) > 0 THEN split(pathParts[1], "?")[1] ELSE <<>>
                         ELSE <<>>
                 IN IF Len(videoId) = 11 THEN videoId ELSE <<>>

idA == <<"d", "Q", "w", "4", "w", "9", "W", "g", "X", "c", "Q">>

idB == <<"9", "b", "Z", "k", "p", "7", "q", "1", "9", "f", "0">>

sYoutubeHost == <<"w", "w", "w", ".", "y", "o", "u", "t", "u", "b", "e", ".", "c", "o", "m">>

sShortHost == <<"y", "o", "u", "t", "u", ".", "b", "e">>

sLookalikeHost == <<"n", "o", "t", "y", "o", "u", "t", "u", "b", "e", ".", "c", "o", "m">>

sOtherHost == <<"v", "i", "m", "e", "o", ".", "c", "o", "m">>

sWatch == <<"/", "w", "a", "t", "c", "h">>

\* A request url put together from its parts: what stands before the
\* scheme, the host, the path and the search string, and what follows.
\* v and segment name the v parameter and the first path segment the url
\* was built with.
UrlCase(lead, host, path, search, trail, v, segment) ==
    [url |-> JStr(lead \o sHttps \o host \o path \o search \o trail),
     host |-> host, v |-> v, segment |-> segment]

\* a request without url, with an empty url, with words instead of a URL,
\* and URLs on YouTube's hosts and on others
UrlCases ==
    {[url |-> JUndefined, host |-> <<>>, v |-> <<>>, segment |-> <<>>],
     [url |-> JStr(<<>>), host |-> <<>>, v |-> <<>>, segment |-> <<>>],
     [url |-> JStr(sMore), host |-> <<>>, v |-> <<>>, segment |-> <<>>],
     UrlCase(<<>>, sYoutubeHost, sWatch, <<"?", "v", "=">> \o idA, <<>>, idA, <<"w", "a", "t", "c", "h">>),
     UrlCase(<<" ", "@">>, sShortHost, <<"/">> \o idB, <<"?", "t", "=", "5">>, <<" ">>, <<>>, idB),
     UrlCase(<<>>, sYoutubeHost, sWatch, <<"?", "v", "=", "a", "b", "c">>, <<>>, <<"a", "b", "c">>, <<"w", "a", "t", "c", "h">>),
     UrlCase(<<>>, sShortHost, <<"/">>, <<>>, <<>>, <<>>, <<>>),
     UrlCase(<<>>, sLookalikeHost, sWatch, <<"?", "v", "=">> \o idA, <<>>, idA, <<"w", "a", "t", "c", "h">>),
     UrlCase(<<>>, sOtherHost, <<"/">> \o idB, <<"?", "v", "=">> \o idA, <<>>, idA, idB)}

Urls == {c.url : c \in UrlCases}

\* the five entity replacements, in the order of the code
decodeEntities(text) ==
    replaceAll(replaceAll(replaceAll(replaceAll(replaceAll(text,
        <<"&", "#", "3", "9", ";">>, <<"'">>),
        <<"&", "q", "u", "o", "t", ";">>, <<"\"">>),
        <<"&", "a", "m", "p", ";">>, <<"&">>),
        <<"&", "l", "t", ";">>, <<"<">>),
        <<"&", "g", "t", ";">>, <<">">>)

\* The <text> nodes of the caption XML, each with its text content and its
\* start and dur attributes as parseFloat reads them: whole seconds, 0 for a
\* missing attribute.
parseYouTubeCaption(nodes) ==
    SelectSeq([i \in 1..Len(nodes) |->
                  [text |-> trim(decodeEntities(nodes[i].text)),
                   offset |-> nodes[i].start * 1000,
                   duration |-> IF nodes[i].dur * 1000 # 0 THEN nodes[i].dur * 1000 ELSE 2000]],
              LAMBDA item : Len(item.text) > 0)

\* found is what the caption sources gave: nothing (no video, no captions,
\* or a request that failed), or the XML of one track, its language and kind
fetchVideoTranscript(found) ==
    IF ~found.ok THEN Throw
    ELSE Return([transcript |-> parseYouTubeCaption(found.captions),
                 language |-> found.language,
                 captionType |-> found.captionType])

sMoreEscaped == <<" ", "m", "o", "r", "e", " ", "&", "a", "m", "p", ";", " ", "t", "e", "x", "t", " ">>

\* what the caption sources give for a video: a 5-second track of two lines,
\* or a track whose first node is blank and whose second has no dur
FetchOutcomes ==
    {[ok |-> FALSE],
     [ok |-> TRUE, language |-> "en", captionType |-> "manual",
      captions |-> <<[text |-> sHello, start |-> 0, dur |-> 2],
                     [text |-> sMore, start |-> 2, dur |-> 3]>>],
     [ok |-> TRUE, language |-> "ms", captionType |-> "auto",
      captions |-> <<[text |-> <<" ">>, start |-> 0, dur |-> 1],
                     [text |-> sMoreEscaped, start |-> 1, dur |-> 0]>>]}

sTalk == <<"T", "a", "l", "k">>

\* the oEmbed lookup: it failed, or it gave a title
TitleOutcomes == {[ok |-> FALSE], [ok |-> TRUE, title |-> sTalk]}

\* the analysis completion: it failed, answered no JSON, or answered as asked
ServerLlmOutcomes == {LlmFailed, LlmReplied(NotJson), LlmReplied(JsonText(GoodAnalysis))}

\* the number of requests the server receives
MaxRequests == 2

NoLocals == [none |-> TRUE]

NoResponse == [status |-> 0]

\* a request whose handler has sent its response
Finished(videoId, logged, res) ==
    [kind |-> "transcript", videoId |-> videoId, pc |-> "done",
     locals |-> NoLocals, logged |-> logged, res |-> res]

\* a request whose handler waits at an await
Waiting(videoId, pc, locals, logged) ==
    [kind |-> "transcript", videoId |-> videoId, pc |-> pc,
     locals |-> locals, logged |-> logged, res |-> NoResponse]

\* res.status(code).json({ error })
ErrorResponse(code, error) == [status |-> code, error |-> error]

\* the catch clauses of the handler: the inner one replaces the message, the
\* outer one answers 500
CaptionsFailed ==
    ErrorResponse(500, "Failed to load video captions. Please ensure the video has either manual or auto-generated captions available.")

\* Map.prototype.get(key): undefined for a key the map does not hold
cacheGet(cache, key) == IF key \in DOMAIN cache THEN cache[key] ELSE JUndefined

cacheSet_onlyKey(cache, key, value) == [k \in {key} |-> value]

\* Map.prototype.set(key, value)
cacheSet(cache, key, value) ==
    [k \in DOMAIN cache \cup {key} |-> IF k = key THEN value ELSE cache[k]]

cachedResponse_analysisAnew(cachedData, analysis) ==
    [status |-> 200,
     message |-> "Transcript loaded from cache",
     metadata |-> cachedData.metadata,
     transcript |-> cachedData.transcript,
     analysis |-> JUndefined,
     language |-> cachedData.language,
     captionType |-> cachedData.captionType]

\* res.json({...}) of the cache hit
cachedResponse(cachedData, analysis) ==
    [status |-> 200,
     message |-> "Transcript loaded from cache",
     metadata |-> cachedData.metadata,
     transcript |-> cachedData.transcript,
     analysis |-> analysis,
     language |-> cachedData.language,
     captionType |-> cachedData.captionType]

\* the handler from the arrival of the request to its first await
TranscriptReceive(url) ==
    /\ Len(reqs) < MaxRequests
    /\ LET videoId == extractVideoId(url)
       IN IF ~Truthy(url)
          THEN /\ reqs' = Append(reqs, Finished(<<>>, {},
                                     ErrorResponse(400, "URL is required")))
               /\ UNCHANGED <<transcriptCache, videoAnalysisCache, fetchCalls>>
          ELSE IF videoId = <<>>
          THEN /\ reqs' = Append(reqs, Finished(<<>>, {},
                                     ErrorResponse(400, "Invalid YouTube URL")))
               /\ UNCHANGED <<transcriptCache, videoAnalysisCache, fetchCalls>>
          ELSE IF videoId \in DOMAIN transcriptCache
          THEN /\ reqs' = Append(reqs, Finished(videoId, {},
                              cachedResponse(cacheGet(transcriptCache, videoId),
                                             cacheGet(videoAnalysisCache, videoId))))
               /\ UNCHANGED <<transcriptCache, videoAnalysisCache, fetchCalls>>
          ELSE /\ reqs' = Append(reqs, Waiting(videoId, "fetchVideoTranscript",
                                     NoLocals, {}))
               /\ fetchCalls' = fetchCalls + 1
               /\ UNCHANGED <<transcriptCache, videoAnalysisCache>>
    /\ UNCHANGED <<call, ret, llmCalls>>

\* fetchVideoTranscript settles: on a rejection the request ends, otherwise
\* the transcript is chunked and the title lookup starts
TranscriptFetched(r, outcome) ==
    /\ reqs[r].pc = "fetchVideoTranscript"
    /\ LET fetched == fetchVideoTranscript(outcome)
       IN IF fetched.threw
          THEN reqs' = [reqs EXCEPT ![r] =
                           Finished(reqs[r].videoId,
                               {"Final transcript fetch error",
                                "Transcript fetch error details", "API error details"},
                               CaptionsFailed)]
          ELSE LET chunked == chunkTranscript(fetched.value.transcript)
               IN reqs' = [reqs EXCEPT ![r] =
                              Waiting(reqs[r].videoId, "oembed",
                                  [transcriptResult |-> fetched.value.transcript,
                                   language |-> fetched.value.language,
                                   captionType |-> fetched.value.captionType,
                                   chunks |-> chunked.chunks,
                                   totalDuration |-> chunked.totalDuration],
                                  {})]
    /\ UNCHANGED <<call, ret, transcriptCache, videoAnalysisCache, fetchCalls, llmCalls>>

\* the title lookup settles (a failure keeps the default title), the metadata
\* is built and analyzeTranscript runs up to its chat completion
TranscriptTitled(r, outcome) ==
    /\ reqs[r].pc = "oembed"
    /\ LET videoTitle == IF outcome.ok /\ Len(outcome.title) > 0 THEN outcome.title ELSE sTitle
           metadata == [title |-> videoTitle,
                        duration |-> reqs[r].locals.totalDuration,
                        author |-> "YouTube Creator"]
       IN reqs' = [reqs EXCEPT ![r] =
                      Waiting(reqs[r].videoId, "analyzeTranscript",
                          [transcriptResult |-> reqs[r].locals.transcriptResult,
                           language |-> reqs[r].locals.language,
                           captionType |-> reqs[r].locals.captionType,
                           chunks |-> reqs[r].locals.chunks,
                           metadata |-> metadata],
                          IF outcome.ok THEN {} ELSE {"Failed to fetch video title"})]
    /\ llmCalls' = llmCalls + 1
    /\ UNCHANGED <<call, ret, transcriptCache, videoAnalysisCache, fetchCalls>>

\* the chat completion settles: analyzeTranscript returns or throws, and the
\* handler caches and answers, or ends in its catch clauses
TranscriptAnalyzed(r, llm) ==
    /\ reqs[r].pc = "analyzeTranscript"
    /\ LET l == reqs[r].locals
           analysis == analyzeTranscript(l.transcriptResult, l.metadata, llm)
           logged == reqs[r].logged \cup analysisLogged(llm)
       IN IF analysis.threw
          THEN /\ reqs' = [reqs EXCEPT ![r] =
                              Finished(reqs[r].videoId,
                                  logged \cup {"Transcript fetch error details",
                                               "API error details"},
                                  CaptionsFailed)]
               /\ UNCHANGED <<transcriptCache, videoAnalysisCache>>
          ELSE /\ transcriptCache' =
                      cacheSet(transcriptCache, reqs[r].videoId,
                          [metadata |-> l.metadata,
                           transcript |-> l.transcriptResult,
                           chunks |-> l.chunks,
                           language |-> l.language,
                           captionType |-> l.captionType])
               /\ videoAnalysisCache' =
                      cacheSet(videoAnalysisCache, reqs[r].videoId, analysis.value)
               /\ reqs' = [reqs EXCEPT ![r] =
                              Finished(reqs[r].videoId, logged,
                                  [status |-> 200,
                                   message |-> IF l.captionType = "auto"
                                               THEN "Transcript loaded successfully (Auto-generated captions)"
                                               ELSE "Transcript loaded successfully (Manual captions)",
                                   metadata |-> l.metadata,
                                   transcript |-> l.transcriptResult,
                                   analysis |-> analysis.value,
                                   language |-> l.language,
                                   captionType |-> l.captionType])]
    /\ UNCHANGED <<call, ret, fetchCalls, llmCalls>>

(***************************************************************************)
(* The server: POST /api/chat                                              *)
(***************************************************************************)

sMoreText == <<"m", "o", "r", "e", " ", "t", "e", "x", "t">>

sWhatAbout == <<"w", "h", "a", "t", " ", "a", "b", "o", "u", "t", " ", "M", "a", "c", "h", "i", "n", "e", " ", "L", "e", "a", "r", "n", "i", "n", "g">>

\* the message and videoId of a request body; <<>> is a missing videoId
ChatMessages == {sMoreText, sWhatAbout}

ChatVideoIds == {idA, idB, <<>>}

sAnswer == <<"I", "t", " ", "i", "s", " ", "c", "o", "v", "e", "r", "e", "d", " ", "a", "t", " ", "[", "6", ":", "4", "0", "]", ".">>

\* the chat completion: it failed, or it answered
ChatOutcomes == {[ok |-> FALSE], [ok |-> TRUE, content |-> sAnswer]}

\* a chat request whose handler has sent its response
ChatFinished(message, videoId, res) ==
    [kind |-> "chat", message |-> message, videoId |-> videoId, pc |-> "done",
     locals |-> NoLocals, logged |-> {}, res |-> res]

\* a chat request whose handler waits for the completion
ChatWaiting(message, videoId, locals) ==
    [kind |-> "chat", message |-> message, videoId |-> videoId, pc |-> "completion",
     locals |-> locals, logged |-> {}, res |-> NoResponse]

\* the catch clause of the handler
ChatFailed == ErrorResponse(500, "Failed to process chat message: <error.message>")

chatMiss_never(cachedData, analysis) == FALSE

\* !cachedData || !analysis
chatMiss(cachedData, analysis) == cachedData = JUndefined \/ ~Truthy(analysis)

\* the handler from the arrival of the request to its await: the cache
\* lookup, getRelevantChunks and createChatContext
ChatReceive(message, videoId) ==
    /\ Len(reqs) < MaxRequests
    /\ LET cachedData == cacheGet(transcriptCache, videoId)
           analysis == cacheGet(videoAnalysisCache, videoId)
       IN IF chatMiss(cachedData, analysis)
          THEN /\ reqs' = Append(reqs, ChatFinished(message, videoId,
                              ErrorResponse(400, "Transcript not found. Please load the video first.")))
               /\ UNCHANGED llmCalls
          ELSE IF cachedData = JUndefined
          THEN \* destructuring undefined throws a TypeError
               /\ reqs' = Append(reqs, ChatFinished(message, videoId, ChatFailed))
               /\ UNCHANGED llmCalls
          ELSE LET relevantChunks == getRelevantChunks(cachedData.chunks, message, analysis)
                   contextPrompt ==
                       IF relevantChunks.threw THEN Throw
                       ELSE createChatContext(message, cachedData.metadata, analysis,
                                relevantChunks.value, cachedData.language)
               IN IF contextPrompt.threw
                  THEN /\ reqs' = Append(reqs, ChatFinished(message, videoId, ChatFailed))
                       /\ UNCHANGED llmCalls
                  ELSE /\ reqs' = Append(reqs, ChatWaiting(message, videoId,
                                      [language |-> cachedData.language,
                                       contextPrompt |-> contextPrompt.value]))
                       /\ llmCalls' = llmCalls + 1
    /\ UNCHANGED <<call, ret, transcriptCache, videoAnalysisCache, fetchCalls>>

\* the chat completion settles and the handler answers
ChatCompleted(r, outcome) ==
    /\ reqs[r].pc = "completion"
    /\ reqs' = [reqs EXCEPT ![r] =
                   ChatFinished(reqs[r].message, reqs[r].videoId,
                       IF outcome.ok
                       THEN [status |-> 200, response |-> outcome.content]
                       ELSE ChatFailed)]
    /\ UNCHANGED <<call, ret, transcriptCache, videoAnalysisCache, fetchCalls, llmCalls>>

Init ==
    /\ call = [fn |-> "none"]
    /\ ret = <<>>
    /\ ServerIdle

Next ==
    \/ \E url \in Urls : TranscriptReceive(url)
    \/ \E r \in 1..Len(reqs), outcome \in FetchOutcomes : TranscriptFetched(r, outcome)
    \/ \E r \in 1..Len(reqs), outcome \in TitleOutcomes : TranscriptTitled(r, outcome)
    \/ \E r \in 1..Len(reqs), llm \in ServerLlmOutcomes : TranscriptAnalyzed(r, llm)
    \/ \E message \in ChatMessages, videoId \in ChatVideoIds : ChatReceive(message, videoId)
    \/ \E r \in 1..Len(reqs), outcome \in ChatOutcomes : ChatCompleted(r, outcome)

Spec == Init /\ [][Next]_vars

\* the chat completion of request r failed: analyzeTranscript logged it
AnalysisFailed(r) == reqs[r].pc = "done" /\ "Analysis Error" \in reqs[r].logged

\* C10: when the chat completion fails during the analysis, analyzeTranscript
\* throws, no (fallback) analysis is produced, and the /api/transcript request
\* ends with an error response.
C10_LlmFailurePropagates ==
    \A r \in 1..Len(reqs) :
        AnalysisFailed(r) =>
            /\ reqs[r].res.status = 500
            /\ DOMAIN reqs[r].res = {"status", "error"}
            /\ (reqs[r].videoId \in DOMAIN videoAnalysisCache =>
                    \E q \in 1..Len(reqs) :
                        /\ q # r
                        /\ reqs[q].pc = "done"
                        /\ reqs[q].videoId = reqs[r].videoId
                        /\ reqs[q].res.status = 200)

\* C10 witness: a request ended by a failed completion, its video not cached
C10_Witness ==
    \E r \in 1..Len(reqs) :
        /\ AnalysisFailed(r)
        /\ reqs[r].res.status = 500
        /\ reqs[r].videoId \notin DOMAIN videoAnalysisCache
        /\ reqs[r].videoId \notin DOMAIN transcriptCache

\* a request arrives in this step; NewRequest is its record after the
\* handler has run up to its first await or to its response
Arrived == Len(reqs') = Len(reqs) + 1

NewRequest == reqs'[Len(reqs')]

\* request q went through acquisition and analysis for the video and cached it
Populated(q, videoId) ==
    /\ reqs[q].kind = "transcript"
    /\ reqs[q].pc = "done"
    /\ reqs[q].videoId = videoId
    /\ reqs[q].res.status = 200
    /\ reqs[q].res.message # "Transcript loaded from cache"

\* request r was answered from the cache
ServedFromCache(r) ==
    /\ reqs[r].kind = "transcript"
    /\ reqs[r].pc = "done"
    /\ reqs[r].res.status = 200
    /\ reqs[r].res.message = "Transcript loaded from cache"

\* C13: a /api/transcript request that arrives for a video identifier in the
\* cache is answered at once (it never reaches fetchVideoTranscript,
\* chunkTranscript or analyzeTranscript), starts no acquisition and no chat
\* completion, leaves the caches alone, and carries the metadata and the
\* analysis of a request that populated the cache.
C13_CacheHitServesCached ==
    [][(/\ Arrived
        /\ NewRequest.kind = "transcript"
        /\ NewRequest.videoId \in DOMAIN transcriptCache)
       => /\ NewRequest.pc = "done"
          /\ NewRequest.res.status = 200
          /\ fetchCalls' = fetchCalls
          /\ llmCalls' = llmCalls
          /\ UNCHANGED <<transcriptCache, videoAnalysisCache>>
          /\ \E q \in 1..Len(reqs) :
                 /\ Populated(q, NewRequest.videoId)
                 /\ NewRequest.res.metadata = reqs[q].res.metadata
                 /\ NewRequest.res.analysis = reqs[q].res.analysis
                 /\ NewRequest.res.transcript = reqs[q].res.transcript]_vars

\* C13 witness: one request populated the cache with one acquisition and one
\* completion, and a later request for the same video is answered from the
\* cache with the same metadata and analysis
C13_Witness ==
    \E q \in 1..Len(reqs) : \E r \in (q + 1)..Len(reqs) :
        /\ Populated(q, reqs[q].videoId)
        /\ ServedFromCache(r)
        /\ reqs[r].videoId = reqs[q].videoId
        /\ reqs[r].res.metadata = reqs[q].res.metadata
        /\ reqs[r].res.analysis = reqs[q].res.analysis
        /\ fetchCalls = 1
        /\ llmCalls = 1

\* the answer to a chat request for a video that is not loaded
TranscriptNotFound ==
    [status |-> 400, error |-> "Transcript not found. Please load the video first."]

\* C14: a /api/chat request that arrives for a video identifier that is not
\* in the cache is answered with status 400 and the request to load the
\* video first; it starts no acquisition and no completion, and both caches
\* stay as they are.
C14_ChatMissIsError ==
    [][(/\ Arrived
        /\ NewRequest.kind = "chat"
        /\ NewRequest.videoId \notin DOMAIN transcriptCache)
       => /\ NewRequest.pc = "done"
          /\ NewRequest.res = TranscriptNotFound
          /\ fetchCalls' = fetchCalls
          /\ llmCalls' = llmCalls
          /\ UNCHANGED <<transcriptCache, videoAnalysisCache>>]_vars

\* C14 witness: with one video loaded, a chat request for another video is
\* refused, and no call was made beyond those of the loading request
C14_Witness ==
    \E q \in 1..Len(reqs) : \E r \in (q + 1)..Len(reqs) :
        /\ Populated(q, reqs[q].videoId)
        /\ reqs[r].kind = "chat"
        /\ reqs[r].pc = "done"
        /\ Len(reqs[r].videoId) = 11
        /\ reqs[r].videoId \notin DOMAIN transcriptCache
        /\ reqs[r].res = TranscriptNotFound
        /\ fetchCalls = 1
        /\ llmCalls = 1

\* C15 (as claimed): under every interleaving, no step runs the analysis of
\* a video to its end when that video is already cached, and an entry of
\* either cache, once written, keeps its value.
C15_WrittenOnce ==
    [][\A k \in DOMAIN transcriptCache :
           /\ k \in DOMAIN transcriptCache'
           /\ k \in DOMAIN videoAnalysisCache'
           /\ transcriptCache'[k] = transcriptCache[k]
           /\ videoAnalysisCache'[k] = videoAnalysisCache[k]
           /\ \A r \in 1..Len(reqs) :
                  (reqs[r].pc = "analyzeTranscript" /\ reqs[r].videoId = k)
                      => reqs'[r].pc = "analyzeTranscript"]_vars

\* C16: an identifier that is in a cache is in it after every step, whatever
\* request arrives, proceeds, succeeds or fails.
C16_NeverEvicted ==
    [][/\ DOMAIN transcriptCache \subseteq DOMAIN transcriptCache'
       /\ DOMAIN videoAnalysisCache \subseteq DOMAIN videoAnalysisCache']_vars

\* C16 witness: a video was cached, a second video was cached after it, and
\* both are in both caches
C16_Witness ==
    \E q \in 1..Len(reqs) : \E r \in 1..Len(reqs) :
        /\ Populated(q, reqs[q].videoId)
        /\ Populated(r, reqs[r].videoId)
        /\ reqs[q].videoId # reqs[r].videoId
        /\ {reqs[q].videoId, reqs[r].videoId} \subseteq DOMAIN transcriptCache
        /\ {reqs[q].videoId, reqs[r].videoId} \subseteq DOMAIN videoAnalysisCache

\* request r is answered in this step with something other than a success
FailsNow(r) ==
    /\ r \in 1..Len(reqs')
    /\ (r \in 1..Len(reqs) => reqs[r].pc # "done")
    /\ reqs'[r].pc = "done"
    /\ reqs'[r].res.status # 200

\* C17: a step in which a request ends in an error, or in which the chat
\* completion of its analysis failed, changes neither cache; and a step that
\* changes a cache is the last step of a /api/transcript request that had
\* its transcript, whose analysis returned, and that is answered with a
\* success; it writes the entry of that request's video and no other.
C17_OnlySuccessCaches ==
    [][/\ \A r \in 1..Len(reqs') :
              (FailsNow(r) \/ (r \in 1..Len(reqs) /\ reqs[r].pc = "analyzeTranscript"
                                  /\ "Analysis Error" \in reqs'[r].logged))
                  => UNCHANGED <<transcriptCache, videoAnalysisCache>>
       /\ (<<transcriptCache, videoAnalysisCache>>' # <<transcriptCache, videoAnalysisCache>>)
              => \E r \in 1..Len(reqs) :
                     /\ reqs[r].kind = "transcript"
                     /\ reqs[r].pc = "analyzeTranscript"
                     /\ reqs'[r].pc = "done"
                     /\ reqs'[r].res.status = 200
                     /\ DOMAIN transcriptCache' = DOMAIN transcriptCache \cup {reqs[r].videoId}
                     /\ DOMAIN videoAnalysisCache' = DOMAIN videoAnalysisCache \cup {reqs[r].videoId}
                     /\ transcriptCache'[reqs[r].videoId].transcript = reqs[r].locals.transcriptResult
                     /\ videoAnalysisCache'[reqs[r].videoId] = reqs'[r].res.analysis
                     /\ \A k \in DOMAIN transcriptCache \ {reqs[r].videoId} :
                            /\ transcriptCache'[k] = transcriptCache[k]
                            /\ videoAnalysisCache'[k] = videoAnalysisCache[k]]_vars

\* C17 witness: one request failed at acquisition and one at analysis, both
\* caches are still empty
C17_Witness ==
    \E q \in 1..Len(reqs) : \E r \in 1..Len(reqs) :
        /\ reqs[q].pc = "done"
        /\ "Final transcript fetch error" \in reqs[q].logged
        /\ reqs[q].res.status = 500
        /\ AnalysisFailed(r)
        /\ reqs[r].res.status = 500
        /\ transcriptCache = EmptyMap
        /\ videoAnalysisCache = EmptyMap
        /\ fetchCalls = 2
        /\ llmCalls = 1

\* the seconds of captions the items of a transcript stand for: an item's
\* duration is its dur attribute times 1000
RECURSIVE CaptionSeconds(_)
CaptionSeconds(transcript) ==
    IF Len(transcript) = 0 THEN 0
    ELSE transcript[1].duration \div 1000 + CaptionSeconds(Tail(transcript))

\* C20 (as claimed): the duration in a cached video's metadata is the sum of
\* its transcript items' durations in seconds.
C20_DurationInSeconds ==
    \A k \in DOMAIN transcriptCache :
        transcriptCache[k].metadata.duration = CaptionSeconds(transcriptCache[k].transcript)

\* host is the name, or a subdomain of the name
HostOf(host, name) ==
    \/ host = name
    \/ /\ Len(host) > Len(name) + 1
       /\ SubSeq(host, Len(host) - Len(name), Len(host)) = <<".">> \o name

\* The identifier a request url names, read from the parts the url was built
\* with: the v parameter on a youtube.com host, the first path segment on a
\* youtu.be host, of 11 characters; <<>> where there is none.
ClaimedId(c) ==
    LET id == IF HostOf(c.host, sYoutubeCom) THEN c.v
              ELSE IF HostOf(c.host, sYoutuBe) THEN c.segment
              ELSE <<>>
    IN IF Len(id) = 11 THEN id ELSE <<>>

\* the step is the arrival of a /transcript request that is turned down
\* without any effect
TurnedDown ==
    /\ Arrived
    /\ NewRequest.kind = "transcript"
    /\ NewRequest.pc = "done"
    /\ NewRequest.res.status = 400
    /\ fetchCalls' = fetchCalls
    /\ llmCalls' = llmCalls
    /\ UNCHANGED <<transcriptCache, videoAnalysisCache>>

\* C22 (as claimed): a /transcript request whose url is missing, or names no
\* 11-character identifier (v parameter on a youtube.com host, first path
\* segment on a youtu.be host), is answered with 400, starts no acquisition
\* and no LLM call, and leaves the caches unchanged.
C22_InvalidUrlRejected ==
    [][\A c \in UrlCases :
          (TranscriptReceive(c.url) /\ ClaimedId(c) = <<>>) => TurnedDown]_vars

\* C26: the transcript cache and the analysis cache hold the same
\* identifiers in every reachable state, and the analysis of each is one a
\* lookup finds: no request sees a transcript entry without an analysis, or
\* an analysis without a transcript entry.
C26_CachesAgree ==
    /\ DOMAIN transcriptCache = DOMAIN videoAnalysisCache
    /\ \A k \in DOMAIN videoAnalysisCache :
           /\ Truthy(cacheGet(videoAnalysisCache, k))
           /\ cacheGet(transcriptCache, k) # JUndefined

\* C26 witness: a video was loaded, and a chat request that followed found
\* its entries in both caches and was answered
C26_Witness ==
    \E q \in 1..Len(reqs) : \E r \in 1..Len(reqs) :
        /\ q < r
        /\ Populated(q, reqs[q].videoId)
        /\ reqs[r].kind = "chat"
        /\ reqs[r].videoId = reqs[q].videoId
        /\ reqs[r].pc = "done"
        /\ reqs[r].res.status = 200
        /\ reqs[r].videoId \in DOMAIN transcriptCache \cap DOMAIN videoAnalysisCache

(***************************************************************************)
(* createChatContext applied to analyses of up to MaxTopics topics and     *)
(* concepts, in both languages                                             *)
(***************************************************************************)

\* the longest mainTopics and keyConcepts createChatContext is applied to
MaxTopics == 4

ContextNames == {sMachineLearning, sLearn, sPython}

NameLists == UNION {[1..n -> ContextNames] : n \in 0..MaxTopics}

\* mainTopics with the given topic strings; the description tells the
\* entries apart
ContextTopics(names) ==
    [i \in 1..Len(names) |->
        JObj([topic |-> JStr(names[i]), timestamp |-> JStr(ts005),
              description |-> JStr(<<"t">> \o Dec(i))])]

\* keyConcepts with the given concept strings, last name first
ContextConcepts(names) ==
    [i \in 1..Len(names) |->
        JObj([concept |-> JStr(names[Len(names) + 1 - i]),
              definition |-> JStr(<<"c">> \o Dec(i))])]

sMachine == <<"m", "a", "c", "h", "i", "n", "e">>

sWhy == <<"w", "h", "y">>

ContextQueries == {sWhatAbout, sMachine, sPython, sWhy}

\* the chunk of a two-line transcript
ContextChunks ==
    chunkTranscript(Transcript(<<[text |-> sHello, duration |-> 2000],
                                 [text |-> sMore, duration |-> 3000]>>)).chunks

InitContext ==
    /\ \E names \in NameLists, query \in ContextQueries, language \in {"en", "ms"} :
           call = [fn |-> "createChatContext",
                   query |-> query,
                   metadata |-> [title |-> sTalk, duration |-> 5000, author |-> "YouTube Creator"],
                   analysis |-> JObj([summary |-> JStr(<<"s">>),
                                      mainTopics |-> JArr(ContextTopics(names)),
                                      keyConcepts |-> JArr(ContextConcepts(names)),
                                      timeline |-> JArr(<<>>)]),
                   relevantChunks |-> ContextChunks,
                   language |-> language]
    /\ ret = <<>>
    /\ ServerIdle

CallCreateChatContext ==
    /\ call.fn = "createChatContext"
    /\ ret = <<>>
    /\ ret' = <<createChatContext(call.query, call.metadata, call.analysis,
                                  call.relevantChunks, call.language)>>
    /\ UNCHANGED <<call, serverVars>>

NextContext == CallCreateChatContext

SpecContext == InitContext /\ [][NextContext]_vars

Contexted == call.fn = "createChatContext" /\ ret # <<>>

\* the entries whose name holds the query or is held by it, letter case
\* aside
Matching(entries, k, query) ==
    {i \in 1..Len(entries) :
        \/ includes(toLowerCase(entries[i].v[k].v), toLowerCase(query))
        \/ includes(toLowerCase(query), toLowerCase(entries[i].v[k].v))}

\* the three smallest members of a set of indices, or all of them
FirstThreeOf(S) == {i \in S : Cardinality({j \in S : j < i}) < 3}

\* the lines with an index in S, from line i on, in their order
RECURSIVE LinesOf(_, _, _)
LinesOf(lines, S, i) ==
    IF i > Len(lines) THEN <<>>
    ELSE (IF i \in S THEN <<lines[i]>> ELSE <<>>) \o LinesOf(lines, S, i + 1)

TopicText(t) ==
    <<"[">> \o t.v.timestamp.v \o <<"]", " ">> \o t.v.topic.v \o <<":", " ">> \o t.v.description.v

ConceptText(c) == c.v.concept.v \o <<":", " ">> \o c.v.definition.v

\* the block is in the text: between two blank lines its header, then the
\* lines with an index in S and no other of the lines; or, for an empty S,
\* neither the header nor any of the lines
BlockShows(out, header, lines, S) ==
    /\ S # {} <=> includes(out, header)
    /\ S # {} =>
           includes(out, <<"\n", "\n">> \o header \o <<"\n">>
                             \o join(LinesOf(lines, S, 1), <<"\n">>)
                             \o <<"\n", "\n">>)
    /\ \A i \in 1..Len(lines) :
           i \notin S => ~includes(out, <<"\n">> \o lines[i] \o <<"\n">>)

\* C21: the topics block of createChatContext lists the first matching
\* mainTopics in analysis order, three at most, where an entry matches when
\* its lower-cased topic holds the lower-cased query or is held by it; the
\* concepts block does the same with keyConcepts; a block's header is in the
\* text exactly when the block lists an entry.
C21_BlocksListFirstThree ==
    Contexted =>
        /\ ~ret[1].threw
        /\ LET topics == call.analysis.v.mainTopics.v
               concepts == call.analysis.v.keyConcepts.v
               ms == call.language = "ms"
           IN /\ BlockShows(ret[1].value,
                     IF ms THEN sTopikBerkaitan ELSE sRelevantTopics,
                     [i \in 1..Len(topics) |-> TopicText(topics[i])],
                     FirstThreeOf(Matching(topics, "topic", call.query)))
              /\ BlockShows(ret[1].value,
                     IF ms THEN sKonsepPenting ELSE sRelevantConcepts,
                     [i \in 1..Len(concepts) |-> ConceptText(concepts[i])],
                     FirstThreeOf(Matching(concepts, "concept", call.query)))

\* C21 witness: four topics, of which the second does not match; the first,
\* third and fourth are listed, in a text with a topics header
C21_Witness ==
    /\ Contexted
    /\ Len(call.analysis.v.mainTopics.v) = 4
    /\ Matching(call.analysis.v.mainTopics.v, "topic", call.query) = {1, 3, 4}
    /\ includes(ret[1].value, sRelevantTopics)
    /\ includes(ret[1].value, TopicText(call.analysis.v.mainTopics.v[4]))
    /\ ~includes(ret[1].value, TopicText(call.analysis.v.mainTopics.v[2]))

(***************************************************************************)
(* analyzeTranscript applied to replies of up to MaxStamps topics and      *)
(* MaxStamps timeline entries, for the coverage validation                 *)
(***************************************************************************)

\* the timestamps of the replies, each with the seconds it stands for
StampPool ==
    {[text |-> <<"0", ":", "0", "5">>, seconds |-> 5],
     [text |-> <<"3", ":", "0", "0">>, seconds |-> 180],
     [text |-> <<"3", ":", "0", "1">>, seconds |-> 181],
     [text |-> <<"3", ":", "0", "5">>, seconds |-> 185],
     [text |-> <<"0", ":", "0", "6", ":", "0", "6">>, seconds |-> 366]}

\* the most topics, and the most timeline entries, of a reply
MaxStamps == 2

StampLists == UNION {[1..n -> {p.text : p \in StampPool}] : n \in 0..MaxStamps}

TimelineEntry(time) == JObj([time |-> JStr(time), event |-> JStr(<<"e">>)])

\* a reply in the requested format with the given timestamps
ReplyWith(topicStamps, timelineStamps) ==
    JObj([summary |-> JStr(<<"s">>),
          mainTopics |-> JArr([i \in 1..Len(topicStamps) |->
                                  TopicEntry(sPython, topicStamps[i])]),
          keyConcepts |-> JArr(<<ConceptEntry(sPython)>>),
          timeline |-> JArr([i \in 1..Len(timelineStamps) |->
                                TimelineEntry(timelineStamps[i])])])

CoverageTranscript ==
    Transcript(<<[text |-> sHello, duration |-> 2000],
                 [text |-> sMore, duration |-> 3000]>>)

\* the completion failed, carried no JSON, or carried a reply
CoverageOutcomes ==
    {LlmFailed, LlmReplied(NotJson)}
    \cup {LlmReplied(JsonText(ReplyWith(a, b))) : a \in StampLists, b \in StampLists}

InitCoverage ==
    /\ \E llm \in CoverageOutcomes :
           call = [fn |-> "analyzeTranscript", transcript |-> CoverageTranscript,
                   metadata |-> MetadataOf(sTitle, CoverageTranscript), llm |-> llm]
    /\ ret = <<>>
    /\ ServerIdle

NextCoverage == CallAnalyzeTranscript

SpecCoverage == InitCoverage /\ [][NextCoverage]_vars

\* analyzeTranscript returned the reply it parsed
ParsedReply ==
    /\ Analyzed
    /\ call.llm.ok
    /\ call.llm.content.kind = "json"
    /\ ret[1] = Return(call.llm.content.value)

Warned == "Warning: Analysis contains gaps larger than 3 minutes" \in ret[2]

SecondsOf(stamp) == (CHOOSE p \in StampPool : p.text = stamp).seconds

\* the seconds of all mainTopics timestamps and timeline times of the reply
ReplySeconds ==
    LET v == call.llm.content.value.v
    IN {SecondsOf(v.mainTopics.v[i].v.timestamp.v) : i \in 1..Len(v.mainTopics.v)}
       \cup {SecondsOf(v.timeline.v[i].v.time.v) : i \in 1..Len(v.timeline.v)}

\* the smallest value is beyond 180, or two values that are neighbours in
\* ascending order are more than 180 apart
Uncovered(S) ==
    \/ S # {} /\ \A x \in S : x > 180
    \/ \E x, y \in S :
           /\ y - x > 180
           /\ ~\E z \in S : x < z /\ z < y

\* C25: after a successful parse the coverage warning is raised exactly when,
\* over all mainTopics timestamps and timeline times in seconds in ascending
\* order, the smallest exceeds 180 or two consecutive values differ by more
\* than 180; without timestamps there is no warning.
C25_WarningIffGap ==
    ParsedReply =>
        /\ Warned <=> Uncovered(ReplySeconds)
        /\ ReplySeconds = {} => ~Warned

\* C25 witness: the reply lists its timestamps out of order, the smallest
\* is within the first 180 seconds, and a later gap raises the warning
C25_Witness ==
    /\ ParsedReply
    /\ Warned
    /\ Len(call.llm.content.value.v.mainTopics.v) = 2
    /\ SecondsOf(call.llm.content.value.v.mainTopics.v[1].v.timestamp.v)
           > SecondsOf(call.llm.content.value.v.mainTopics.v[2].v.timestamp.v)
    /\ \E x \in ReplySeconds : x <= 180

=============================================================================
